---- MODULE Spec2Model ----
(***************************************************************************)
(* Package cache and progressive fetch/extract pipeline of conda           *)
(* (conda/core/package_cache.py).                                          *)
(*                                                                         *)
(* The model holds the configured cache roots (context.pkgs_dirs), what    *)
(* lies on disk below them, each root's in-memory index                    *)
(* (PackageCache._package_cache_records), and one ProgressiveFetchExtract  *)
(* object whose execute() is followed statement by statement.              *)
(***************************************************************************)
EXTENDS Integers, Sequences, FiniteSets, TLC

\* Number of configured cache roots (len(context.pkgs_dirs)).
NRoots == 2

\* Number of distinct md5 values a cached record can carry.
NMd5 == 2

\* Number of PackageCache objects a process constructs at most.
MaxHandles == 4

\* Longest stem of a name in a directory listing, in characters.
MaxStem == 2

\* Largest number of names in a directory listing.
MaxListing == 3

Roots == 1..NRoots

\* context.pkgs_dirs, in declared order.
pkgs_dirs == [i \in 1..NRoots |-> i]

\* Package identities (the pkey of a PackageRef), in a fixed listing order.
PkgOrder == <<"x", "y">>

Pkgs == {PkgOrder[i] : i \in 1..Len(PkgOrder)}

\* Python's None.
None == [kind |-> "None"]

VARIABLES
    is_writable,      \* [Roots -> BOOLEAN]: PackageCache.is_writable of each root
    disk_files,       \* tarball paths that are files on disk
    disk_dirs,        \* extracted-package directories that exist on disk
    disk_index_json,  \* directories that hold a readable info/index.json
    tarball_md5,      \* [tarball paths -> content hash of the file there, 0 without a file]
    disk_corrupt,     \* tarball paths whose file is no readable archive
    disk_repodata_record,  \* [directories -> their info/repodata_record.json, or None]
    records,          \* [Roots -> [Pkgs -> record or None]]: _package_cache_records
    link_precs,       \* ProgressiveFetchExtract.link_precs
    paired_actions,   \* odict prec -> (cache_axn, extract_axn), as a sequence of items
    prepared,         \* ProgressiveFetchExtract._prepared
    pc,               \* position inside execute()
    idx,              \* position of the for loop in paired_actions
    pos,              \* position inside the try / except / else block
    exc,              \* exception caught by _execute_actions, or None
    exceptions,       \* execute()'s list of captured exceptions
    result,           \* how execute() ended
    calls,            \* every action method invoked so far, in order
    hold,             \* what the running actions moved aside at their target paths
    disk_before,      \* the disk as it was when _execute_actions began the current ref
    entry_to_link,    \* the last get_entry_to_link call: its argument and outcome
    cache_,           \* PackageCache._cache_: [Roots -> handle, 0 when the path is no key]
    handles,          \* number of PackageCache objects constructed so far
    constructed,      \* (pkgs_dir, handle) of every PackageCache(pkgs_dir) since the last clear()
    retired,          \* the handles constructed before the last clear()
    returned,         \* the last PackageCache(...) call: its argument and the handle returned
    writable_memo,    \* [Roots -> None or a bool]: PackageCache.__is_writable
    pkgs_dir_isdir,   \* [Roots -> BOOLEAN]: isdir(self.pkgs_dir)
    write_permitted,  \* [Roots -> BOOLEAN]: the process may write below the root
    evaluated,        \* [Roots -> None or a bool]: what is_writable last evaluated to
    seen_false,       \* the roots whose is_writable has evaluated to False
    listing,          \* listdir(pkgs_dir): a set of names, each a string of characters
    deduped,          \* what _dedupe_pkgs_dir_contents returned for it, or None
    disk_links,       \* tarball paths that are symbolic links
    just_loaded,      \* the root load() ran on last with the disk untouched since, or 0
    scan_log,         \* the last two operations on a root's index, and the index before the last
    urls_data,        \* UrlsData._urls_data: the dict's (key, list of URLs) items in insertion order
    urls_txt,         \* <root>/urls.txt: None, or the file with its lines
    subdir_urls_txt,  \* [bucket keys -> None or the file <root>/<channel>/<subdir>/urls.txt]
    metadata_json,    \* the channel directories of the root that hold a metadata.json
    init_lines,       \* the lines <root>/urls.txt had when UrlsData was constructed
    url_log,          \* the add_url calls since UrlsData was constructed: URL, and whether it raised
    url_got,          \* the get_url call made since the last add_url: its argument and value, or None
    dist_a,           \* a Dist
    dist_b,           \* another Dist
    compared,         \* the values of dist_a == dist_b, <, >, <=, >=, !=, or None
    progress_axns,    \* the (cache_axn, extract_axn) pair one _execute_actions call is given
    progress_pc,      \* position inside that call
    download_total,   \* its local download_total, in hundredths
    reported          \* the values handed to progress_bar.update_to, with their callbacks

\* The variables of the fetch/extract pipeline.
pipelineVars == <<is_writable, disk_files, disk_dirs, disk_index_json, tarball_md5,
                  disk_corrupt, disk_repodata_record, records, link_precs,
                  paired_actions, prepared, pc, idx, pos, exc, exceptions, result, calls,
                  hold, disk_before>>

\* The variables of the other parts of the package cache.
registryVars == <<cache_, handles, constructed, retired, returned>>

writableVars == <<writable_memo, pkgs_dir_isdir, write_permitted, evaluated, seen_false>>

dedupeVars == <<listing, deduped>>

scanVars == <<disk_links, just_loaded, scan_log>>

urlsVars == <<urls_data, urls_txt, subdir_urls_txt, metadata_json, init_lines, url_log, url_got>>

distVars == <<dist_a, dist_b, compared>>

progressVars == <<progress_axns, progress_pc, download_total, reported>>

otherVars == <<entry_to_link, registryVars, writableVars, dedupeVars, scanVars, urlsVars,
               distVars, progressVars>>

\* What the actions of one part leave alone: the variables of all other parts.
exceptLink == <<pipelineVars, registryVars, writableVars, dedupeVars, scanVars, urlsVars,
    distVars, progressVars>>

exceptRegistry == <<pipelineVars, entry_to_link, writableVars, dedupeVars, scanVars, urlsVars,
    distVars, progressVars>>

exceptWritable == <<pipelineVars, entry_to_link, registryVars, dedupeVars, scanVars, urlsVars,
    distVars, progressVars>>

exceptDedupe == <<pipelineVars, entry_to_link, registryVars, writableVars, scanVars, urlsVars,
    distVars, progressVars>>

exceptScan == <<entry_to_link, registryVars, writableVars, dedupeVars, urlsVars,
    distVars, progressVars>>

exceptUrls == <<pipelineVars, entry_to_link, registryVars, writableVars, dedupeVars, scanVars,
    distVars, progressVars>>

vars == <<pipelineVars, otherVars>>

diskVars == <<disk_files, disk_dirs, disk_index_json, tarball_md5, disk_corrupt,
              disk_repodata_record>>

cacheVars == <<is_writable, diskVars, records>>

\* What lies at a tarball path, and what lies at a directory path.
fileVars == <<disk_files, tarball_md5, disk_corrupt>>

dirVars == <<disk_dirs, disk_index_json, disk_repodata_record>>

----------------------------------------------------------------------------
\* Paths.  A path is the cache root, the channel/subdir components below it
\* (empty in the legacy flat layout) and a file name; a file name is a stem
\* with or without CONDA_TARBALL_EXTENSION.

pkgs_dir_path(r) == [root |-> r, sub |-> <<>>]

join(dir, stem, tar) == [root |-> dir.root, sub |-> dir.sub, stem |-> stem, tar |-> tar]

dirname(path) == [root |-> path.root, sub |-> path.sub]

\* fn[:-len(CONDA_TARBALL_EXTENSION)]
strip_tarball_extension(name) == [name EXCEPT !.tar = FALSE]

\* PackageRef.fn: "<name>-<version>-<build>" + CONDA_TARBALL_EXTENSION
fn(pkey) == [stem |-> pkey, tar |-> TRUE]

path_to_url(path) == [kind |-> "url", scheme |-> "file", path |-> path]

remote_url(pkey) == [kind |-> "url", scheme |-> "https", base |-> fn(pkey)]

\* cache_axn.url.startswith('file:/')
is_file_url(url) == url.scheme = "file"

----------------------------------------------------------------------------
\* Cache records.

\* channel.safe_name and subdir are those of the record's channel; subdir is ""
\* (None) for a record that names no subdir.
PackageCacheRecord(pkey, md5, tarball_path, extracted_dir) ==
    [kind |-> "pcrec", pkey |-> pkey, md5 |-> md5, fn |-> fn(pkey),
     package_tarball_full_path |-> tarball_path,
     extracted_package_dir |-> extracted_dir,
     channel_safe_name |-> "defaults", subdir |-> ""]

\* What _make_single_record yields for package pkey lying in the flat layout
\* of root r: both paths are always set, whatever exists on disk.
scanned_record(r, pkey, md5) ==
    PackageCacheRecord(pkey, md5,
                       join(pkgs_dir_path(r), pkey, TRUE),
                       join(pkgs_dir_path(r), pkey, FALSE))

\* PackageCacheRecord.is_fetched: the tarball is a file on disk.
is_fetched(pcrec) == pcrec.package_tarball_full_path \in disk_files

\* PackageCacheRecord.is_extracted: info/index.json is in the extracted directory.
is_extracted(pcrec) == pcrec.extracted_package_dir \in disk_index_json

\* PackageRef equality: by the identity tuple, never by md5 or url.
ref_eq(pcrec, pref) == pcrec.pkey = pref.pkey

RECURSIVE values_from(_, _)
values_from(r, i) ==
    IF i > Len(PkgOrder) THEN <<>>
    ELSE (IF records[r][PkgOrder[i]] = None THEN <<>> ELSE <<records[r][PkgOrder[i]]>>)
         \o values_from(r, i + 1)

\* PackageCache.values(): the records of one root's index.
values(r) == values_from(r, 1)

\* PackageCache.query(package_ref): the records of root r equal to the ref.
query(r, pref) == SelectSeq(values(r), LAMBDA pcrec : ref_eq(pcrec, pref))

RECURSIVE concat_query(_, _)
\* concat(pcache.query(pref) for pcache in caches)
concat_query(caches, pref) ==
    IF caches = <<>> THEN <<>>
    ELSE query(Head(caches), pref) \o concat_query(Tail(caches), pref)

\* next(iter(seq), None)
first_or_none(seq) == IF seq = <<>> THEN None ELSE Head(seq)

\* PackageCache.writable_caches() without its emptiness check.
writable_filter == SelectSeq(pkgs_dirs, LAMBDA c : is_writable[c])

\* PackageCache.writable_caches(): raises CondaError when no root is writable.
writable_caches ==
    IF writable_filter = <<>> THEN [kind |-> "raise", exc |-> "CondaError"]
    ELSE [kind |-> "ok", caches |-> writable_filter]

\* Mutant of read_only_caches: the roots are not filtered.
read_only_caches_unfiltered == pkgs_dirs

\* PackageCache.read_only_caches()
read_only_caches == SelectSeq(pkgs_dirs, LAMBDA c : ~is_writable[c])

\* PackageCache.first_writable(): writable_caches()[0]
first_writable == Head(writable_caches.caches)

\* Mutant of insert: the index is left as it was.
insert_not_stored(recs, r, pcrec) == recs

\* insert that stores the record before it writes the file.
insert_raised_after_store(recs, r, pcrec) == [recs EXCEPT ![r][pcrec.pkey] = pcrec]

\* PackageCache.insert when write_as_json_to_file raises: the assignment to
\* _package_cache_records below it is not reached.
insert_raised(recs, r, pcrec) == recs

\* PackageCache.insert: the record becomes the index entry of its ref.
insert(recs, r, pcrec) == [recs EXCEPT ![r][pcrec.pkey] = pcrec]

----------------------------------------------------------------------------
\* Actions planned by ProgressiveFetchExtract.make_actions_for_record.

\* <target_pkgs_dir>/[<channel>/<subdir>/]: the directory an action works in;
\* the two components are there when channel name and subdir are both set.
below(target_pkgs_dir, channel_name, subdir) ==
    IF channel_name # "" /\ subdir # ""
    THEN [target_pkgs_dir EXCEPT !.sub = @ \o <<channel_name, subdir>>]
    ELSE target_pkgs_dir

CacheUrlAction(url, target_pkgs_dir, channel_name, subdir, target_package_basename, md5sum) ==
    [kind |-> "CacheUrlAction", url |-> url, target_pkgs_dir |-> target_pkgs_dir,
     target_pkgs_dir_channel_name |-> channel_name, target_pkgs_dir_subdir |-> subdir,
     target_package_basename |-> target_package_basename, md5sum |-> md5sum,
     target_full_path |-> join(below(target_pkgs_dir, channel_name, subdir),
                               target_package_basename.stem, target_package_basename.tar)]

ExtractPackageAction(source_full_path, target_pkgs_dir, channel_name, subdir, dirname_, record_or_spec, md5sum) ==
    [kind |-> "ExtractPackageAction", source_full_path |-> source_full_path,
     target_pkgs_dir |-> target_pkgs_dir,
     target_pkgs_dir_channel_name |-> channel_name, target_pkgs_dir_subdir |-> subdir,
     target_extracted_dirname |-> dirname_,
     record_or_spec |-> record_or_spec, md5sum |-> md5sum,
     target_full_path |-> join(below(target_pkgs_dir, channel_name, subdir),
                               dirname_.stem, dirname_.tar)]

plan(cache_axn, extract_axn) ==
    [kind |-> "plan", cache_axn |-> cache_axn, extract_axn |-> extract_axn]

raises(e) == [kind |-> "raise", exc |-> e]

\* Mutant of extracted_pcrec: the "if md5" test is dropped.
extracted_pcrec_without_md5_test(pref) ==
    first_or_none(SelectSeq(concat_query(pkgs_dirs, pref),
                            LAMBDA pcrec : is_extracted(pcrec)))

\* if md5: extracted_pcrec = next(pcrec over all pkgs_dirs if pcrec.is_extracted)
extracted_pcrec(pref) ==
    IF pref.md5 # 0
    THEN first_or_none(SelectSeq(concat_query(pkgs_dirs, pref),
                                 LAMBDA pcrec : is_extracted(pcrec)))
    ELSE None

\* Mutant of pcrec_from_writable_cache: every cache is searched, in declared order.
pcrec_from_any_cache(pref) ==
    first_or_none(SelectSeq(concat_query(pkgs_dirs, pref),
                            LAMBDA pcrec : is_fetched(pcrec)))

pcrec_from_writable_cache(pref) ==
    first_or_none(SelectSeq(concat_query(writable_caches.caches, pref),
                            LAMBDA pcrec : is_fetched(pcrec)))

pcrec_from_read_only_cache(pref) ==
    first_or_none(SelectSeq(concat_query(read_only_caches, pref),
                            LAMBDA pcrec : is_fetched(pcrec)))

\* The branch "extract in place".
plan_in_place(pcrec) ==
    plan(None,
         ExtractPackageAction(pcrec.package_tarball_full_path,
                              dirname(pcrec.package_tarball_full_path),
                              pcrec.channel_safe_name, pcrec.subdir,
                              [stem |-> pcrec.extracted_package_dir.stem,
                               tar |-> pcrec.extracted_package_dir.tar],
                              pcrec.pkey, pcrec.md5))

\* The fetch target taken from the last configured cache instead.
fetch_target_last_pkgs_dir == pkgs_dir_path(NRoots)

\* The fetch target of the branches that fetch.
fetch_target_pkgs_dir == pkgs_dir_path(first_writable)

\* Mutant of read_only_fetch_url: the ref's own url is fetched.
read_only_fetch_ref_url(pcrec, pref) == pref.url

\* The url the read-only branch fetches from.
read_only_fetch_url(pcrec, pref) == path_to_url(pcrec.package_tarball_full_path)

\* The branch "link the tarball into the first writable cache, then extract".
plan_from_read_only(pcrec, pref) ==
    LET cache_axn == CacheUrlAction(read_only_fetch_url(pcrec, pref),
                                    fetch_target_pkgs_dir,
                                    pcrec.channel_safe_name, pcrec.subdir,
                                    pcrec.fn, pref.md5)
    IN  plan(cache_axn,
             ExtractPackageAction(cache_axn.target_full_path, fetch_target_pkgs_dir,
                                  pcrec.channel_safe_name, pcrec.subdir,
                                  strip_tarball_extension(pcrec.fn),
                                  pcrec.pkey, pcrec.md5))

\* Channel(url) of the url of a ref: the urls of the refs name no subdir, and
\* then channel_safe_name = subdir = None.
url_channel(url) == [safe_name |-> "", subdir |-> ""]

\* Mutant of plan_download: "assert url" is dropped.
plan_download_without_assert(pref) ==
    LET cache_axn == CacheUrlAction(pref.url, fetch_target_pkgs_dir,
                                    url_channel(pref.url).safe_name,
                                    url_channel(pref.url).subdir,
                                    fn(pref.pkey), pref.md5)
    IN  plan(cache_axn,
             ExtractPackageAction(cache_axn.target_full_path, fetch_target_pkgs_dir,
                                  url_channel(pref.url).safe_name,
                                  url_channel(pref.url).subdir,
                                  strip_tarball_extension(fn(pref.pkey)),
                                  pref.pkey, pref.md5))

\* The branch "download, then extract"; assert url.
plan_download(pref) ==
    IF pref.url = None THEN raises("AssertionError")
    ELSE LET cache_axn == CacheUrlAction(pref.url, fetch_target_pkgs_dir,
                                         url_channel(pref.url).safe_name,
                                         url_channel(pref.url).subdir,
                                         fn(pref.pkey), pref.md5)
         IN  plan(cache_axn,
                  ExtractPackageAction(cache_axn.target_full_path,
                                       fetch_target_pkgs_dir,
                                       url_channel(pref.url).safe_name,
                                       url_channel(pref.url).subdir,
                                       strip_tarball_extension(fn(pref.pkey)),
                                       pref.pkey, pref.md5))

\* The ladder below the no-op test, once a writable cache is known to exist.
plan_tarball(pref) ==
    IF pcrec_from_writable_cache(pref) # None
    THEN plan_in_place(pcrec_from_writable_cache(pref))
    ELSE IF pcrec_from_read_only_cache(pref) # None
    THEN plan_from_read_only(pcrec_from_read_only_cache(pref), pref)
    ELSE plan_download(pref)

make_actions_for_record(pref) ==
    IF extracted_pcrec(pref) # None THEN plan(None, None)
    ELSE IF writable_caches.kind = "raise" THEN writable_caches
    ELSE plan_tarball(pref)

----------------------------------------------------------------------------
\* ProgressiveFetchExtract.prepare

RECURSIVE planned_prefix(_)
\* The items odict.update has stored when it stops: every ref up to the first
\* whose planning raises.
planned_prefix(precs) ==
    IF precs = <<>> THEN <<>>
    ELSE LET p == make_actions_for_record(Head(precs))
         IN  IF p.kind = "raise" THEN <<>>
             ELSE <<[prec |-> Head(precs), axns |-> p]>> \o planned_prefix(Tail(precs))

RECURSIVE first_raise(_)
\* The exception prepare() propagates, or None.
first_raise(precs) ==
    IF precs = <<>> THEN None
    ELSE LET p == make_actions_for_record(Head(precs))
         IN  IF p.kind = "raise" THEN p ELSE first_raise(Tail(precs))

\* execute(): if not self._prepared: self.prepare()
Prepare ==
    /\ pc = "execute"
    /\ ~prepared
    /\ paired_actions' = planned_prefix(link_precs)
    /\ IF first_raise(link_precs) = None
       THEN /\ prepared' = TRUE
            /\ pc' = "check"
            /\ result' = result
       ELSE /\ prepared' = FALSE
            /\ pc' = "done"
            /\ result' = first_raise(link_precs).exc
    /\ UNCHANGED <<cacheVars, otherVars, hold, disk_before,
                   link_precs, idx, pos, exc, exceptions, calls>>

----------------------------------------------------------------------------
\* Initial states.

Md5s == 1..NMd5

\* A package reference handed to the planner.
PackageRefs(pkey) ==
    {[pkey |-> pkey, md5 |-> m, url |-> u] : m \in 0..NMd5, u \in {None, remote_url(pkey)}}

\* What one root can hold of one package after its scan: nothing, or a record
\* with the tarball, the extracted directory, or both on disk.
Holdings ==
    {h \in [tar : BOOLEAN, ext : BOOLEAN, md5 : 0..NMd5] :
        (h.md5 = 0) <=> (~h.tar /\ ~h.ext)}

\* The tarball paths and the directory paths of the flat layout.
AllTarballs == {join(pkgs_dir_path(r), p, TRUE) : r \in Roots, p \in Pkgs}

AllDirs == {join(pkgs_dir_path(r), p, FALSE) : r \in Roots, p \in Pkgs}

\* An info/repodata_record.json; of its fields the md5 (0 for null) is kept.
repodata_json(md5) == [kind |-> "json", md5 |-> md5]

\* How a root keeps its packages: directly below the root (the legacy flat
\* layout, read by the loop of load()) or below <channel>/<subdir>/ (read by
\* _read_subdir); and whether its records name a subdir.
FlatLayout == [sub |-> <<>>, subdir |-> ""]

Layouts ==
    {FlatLayout, [sub |-> <<>>, subdir |-> "linux-64"],
     [sub |-> <<"defaults", "linux-64">>, subdir |-> "linux-64"]}

\* The directory of root r its packages lie in.
layout_dir(r, lay) == [root |-> r, sub |-> lay.sub]

\* What _make_single_record yields for package pkey lying in that directory.
laid_out_record(r, lay, pkey, md5) ==
    [PackageCacheRecord(pkey, md5, join(layout_dir(r, lay), pkey, TRUE),
                        join(layout_dir(r, lay), pkey, FALSE))
        EXCEPT !.subdir = lay.subdir]

\* The roots as a scan leaves them, root r laid out as lay[r]: a tarball held
\* has the hash its record carries, an extracted directory held has a
\* repodata_record.json with it.
InitCachesLaidOut(held, lay) ==
    /\ disk_files = {join(layout_dir(r, lay[r]), p, TRUE) :
                        <<r, p>> \in {rp \in Roots \X Pkgs : held[rp[1]][rp[2]].tar}}
    /\ disk_index_json = {join(layout_dir(r, lay[r]), p, FALSE) :
                        <<r, p>> \in {rp \in Roots \X Pkgs : held[rp[1]][rp[2]].ext}}
    /\ disk_dirs = disk_index_json
    /\ tarball_md5 = [t \in AllTarballs \cup disk_files |->
                         IF held[t.root][t.stem].tar THEN held[t.root][t.stem].md5 ELSE 0]
    /\ disk_corrupt = {}
    /\ disk_repodata_record = [d \in AllDirs \cup disk_dirs |->
                         IF held[d.root][d.stem].ext
                         THEN repodata_json(held[d.root][d.stem].md5) ELSE None]
    /\ records = [r \in Roots |-> [p \in Pkgs |->
                     IF held[r][p].tar \/ held[r][p].ext
                     THEN laid_out_record(r, lay[r], p, held[r][p].md5) ELSE None]]

\* The same with every root in the flat layout and records that name no subdir.
InitCaches(held) == InitCachesLaidOut(held, [r \in Roots |-> FlatLayout])

\* No action of the current ref has moved anything aside.
NothingHeld == [cache_axn |-> None, extract_axn |-> None]

InitExecutor ==
    /\ paired_actions = <<>>
    /\ prepared = FALSE
    /\ pc = "execute"
    /\ idx = 0
    /\ pos = 0
    /\ exc = None
    /\ exceptions = <<>>
    /\ result = "running"
    /\ calls = <<>>
    /\ hold = NothingHeld
    /\ disk_before = diskVars

NoHolding == [tar |-> FALSE, ext |-> FALSE, md5 |-> 0]

\* class PackageCache: _cache_ = {}
InitRegistry ==
    /\ cache_ = [r \in Roots |-> 0]
    /\ handles = 0
    /\ constructed = {}
    /\ retired = {}
    /\ returned = None

\* A Python bool, as a value that can stand where None can.
Bool(b) == [kind |-> "bool", value |-> b]

\* The roots exist and have been probed: load() ran _check_writable() and
\* nothing changed on disk since.
WritableSettled ==
    /\ writable_memo = [r \in Roots |-> Bool(is_writable[r])]
    /\ pkgs_dir_isdir = [r \in Roots |-> TRUE]
    /\ write_permitted = is_writable
    /\ evaluated = [r \in Roots |-> Bool(is_writable[r])]
    /\ seen_false = {r \in Roots : ~is_writable[r]}

\* No directory has been listed.
NothingListed ==
    /\ listing = {}
    /\ deduped = None

\* No symbolic links, and no load() since the disk was last touched.
NoOperation == [op |-> "none", root |-> 0, e |-> None]

NoIndex == [p \in Pkgs |-> None]

NothingLogged == [last |-> NoOperation, prior |-> NoOperation, index |-> NoIndex]

NothingScanned ==
    /\ disk_links = {}
    /\ just_loaded = 0
    /\ scan_log = NothingLogged

\* UrlsData of a root without urls.txt files.
NoUrls ==
    /\ urls_data = <<>>
    /\ urls_txt = None
    /\ subdir_urls_txt = [k \in {} |-> None]
    /\ metadata_json = {}
    /\ init_lines = <<>>
    /\ url_log = <<>>
    /\ url_got = None

\* No Dist is being compared.
NoDists ==
    /\ dist_a = None
    /\ dist_b = None
    /\ compared = None

\* No _execute_actions call is reporting progress.
NoProgress ==
    /\ progress_axns = None
    /\ progress_pc = "idle"
    /\ download_total = 0
    /\ reported = <<>>

\* The other parts of the package cache are at rest.
OtherIdle ==
    /\ entry_to_link = None
    /\ InitRegistry
    /\ WritableSettled
    /\ NothingListed
    /\ NothingScanned
    /\ NoUrls
    /\ NoDists
    /\ NoProgress

\* Planner inputs: one ref, and every combination of what the roots hold of it;
\* the roots keep their packages in the same layout.
InitPlan ==
    /\ is_writable \in [Roots -> BOOLEAN]
    /\ \E h \in [Roots -> Holdings], l \in Layouts :
          InitCachesLaidOut([r \in Roots |-> [p \in Pkgs |-> IF p = "x" THEN h[r] ELSE NoHolding]],
                            [r \in Roots |-> l])
    /\ \E pref \in PackageRefs("x") : link_precs = <<pref>>
    /\ InitExecutor
    /\ OtherIdle

----------------------------------------------------------------------------
\* ProgressiveFetchExtract.execute and _execute_actions

\* The (cache_axn, extract_axn) pair of the ref the for loop is at.
axns == paired_actions[idx].axns

\* tuple(axns[0] for axns in itervalues(self.paired_actions) if axns[0])
cache_actions == SelectSeq(paired_actions, LAMBDA item : item.axns.cache_axn # None)

\* tuple(axns[1] for axns in itervalues(self.paired_actions) if axns[1])
extract_actions == SelectSeq(paired_actions, LAMBDA item : item.axns.extract_axn # None)

\* if not self.cache_actions or not self.extract_actions: return
short_circuit == cache_actions = <<>> \/ extract_actions = <<>>

\* Mutant of try_steps: the extract action is handled before the fetch action.
try_steps_extract_first(a) ==
    (IF a.extract_axn # None THEN <<"extract_verify", "extract_execute">> ELSE <<>>)
    \o (IF a.cache_axn # None THEN <<"cache_verify", "cache_execute">> ELSE <<>>)

\* The method calls of the try block, in statement order.
try_steps(a) ==
    (IF a.cache_axn # None THEN <<"cache_verify", "cache_execute">> ELSE <<>>)
    \o (IF a.extract_axn # None THEN <<"extract_verify", "extract_execute">> ELSE <<>>)

\* Mutant of except_steps: the fetch action is reversed first.
except_steps_cache_first(a) ==
    (IF a.cache_axn # None THEN <<"cache_reverse">> ELSE <<>>)
    \o (IF a.extract_axn # None THEN <<"extract_reverse">> ELSE <<>>)

\* Mutant of except_steps: the fetch action is not reversed.
except_steps_without_cache_reverse(a) ==
    IF a.extract_axn # None THEN <<"extract_reverse">> ELSE <<>>

\* The method calls of the except block.
except_steps(a) ==
    (IF a.extract_axn # None THEN <<"extract_reverse">> ELSE <<>>)
    \o (IF a.cache_axn # None THEN <<"cache_reverse">> ELSE <<>>)

\* The method calls of the else block.
else_steps(a) ==
    (IF a.cache_axn # None THEN <<"cache_cleanup">> ELSE <<>>)
    \o (IF a.extract_axn # None THEN <<"extract_cleanup">> ELSE <<>>)

block_steps(block, a) ==
    CASE block = "try" -> try_steps(a)
      [] block = "except" -> except_steps(a)
      [] block = "else" -> else_steps(a)
      [] OTHER -> <<>>

\* The method call execution stands at.
current_step ==
    IF pc \in {"try", "except", "else"} THEN block_steps(pc, axns)[pos] ELSE "none"

\* Mutant of block_after_try: the else block runs after an exception too.
block_after_try_always_else(raised) == "else"

\* The block control passes to when the try block ends: except on an exception,
\* else otherwise.
block_after_try(raised) == IF raised THEN "except" ELSE "else"

\* Control enters a block at its first call, or falls through an empty block.
Goto(block) ==
    IF block_steps(block, axns) = <<>>
    THEN pc' = "return" /\ pos' = 0
    ELSE pc' = block /\ pos' = 1

\* Control after the current call returned normally.
Proceed ==
    IF pos < Len(block_steps(pc, axns))
    THEN pc' = pc /\ pos' = pos + 1
    ELSE IF pc = "try" THEN Goto(block_after_try(FALSE))
    ELSE pc' = "return" /\ pos' = 0

call(step, raised) == [ref |-> idx, step |-> step, raised |-> raised]

exception(step) == [kind |-> "exc", ref |-> idx, step |-> step]

\* A call of the try block returns.
Returns(step) ==
    /\ calls' = Append(calls, call(step, FALSE))
    /\ Proceed
    /\ UNCHANGED <<exc>>

\* A call of the try block raises: except Exception as e.
Raises(step) ==
    /\ calls' = Append(calls, call(step, TRUE))
    /\ exc' = exception(step)
    /\ Goto(block_after_try(TRUE))

\* Whether execute() of the current ref's action was entered.
started(step) == \E i \in 1..Len(calls) : calls[i].ref = idx /\ calls[i].step = step

execVars == <<is_writable, link_precs, paired_actions, prepared, idx, exceptions, result,
              disk_before, otherVars>>

\* if not self.cache_actions or not self.extract_actions: return
EarlyReturn ==
    /\ pc = "check"
    /\ short_circuit
    /\ pc' = "done"
    /\ result' = "returned"
    /\ UNCHANGED <<cacheVars, otherVars, hold, disk_before,
                   link_precs, paired_actions, prepared, idx, pos, exc,
                   exceptions, calls>>

\* for prec_or_spec, prec_actions in iteritems(self.paired_actions)
EnterLoop ==
    /\ pc = "check"
    /\ ~short_circuit
    /\ pc' = "for"
    /\ idx' = 1
    /\ UNCHANGED <<cacheVars, otherVars, hold, disk_before,
                   link_precs, paired_actions, prepared, pos, exc,
                   exceptions, result, calls>>

\* _execute_actions: if cache_axn is None and extract_axn is None: return
SkipRef ==
    /\ pc = "for"
    /\ idx <= Len(paired_actions)
    /\ axns.cache_axn = None /\ axns.extract_axn = None
    /\ idx' = idx + 1
    /\ UNCHANGED <<cacheVars, otherVars, hold, disk_before,
                   link_precs, paired_actions, prepared, pc, pos, exc,
                   exceptions, result, calls>>

\* _execute_actions enters its try block.
BeginRef ==
    /\ pc = "for"
    /\ idx <= Len(paired_actions)
    /\ ~(axns.cache_axn = None /\ axns.extract_axn = None)
    /\ exc' = None
    /\ hold' = NothingHeld
    /\ disk_before' = diskVars
    /\ Goto("try")
    /\ UNCHANGED <<cacheVars, otherVars, link_precs, paired_actions, prepared, idx,
                   exceptions, result, calls>>

\* cache_axn.verify()
CacheVerify ==
    /\ current_step = "cache_verify"
    /\ \/ Returns("cache_verify")
       \/ Raises("cache_verify")
    /\ UNCHANGED <<execVars, diskVars, records, hold>>

\* What lies at a tarball path: whether a file, its content hash, and whether
\* it is no readable archive.
FileAt(t) == [file |-> t \in disk_files, md5 |-> tarball_md5[t], corrupt |-> t \in disk_corrupt]

NoFile == [file |-> FALSE, md5 |-> 0, corrupt |-> FALSE]

\* A download or copy that stopped half-way: a truncated archive.
PartialFile == [file |-> TRUE, md5 |-> NMd5, corrupt |-> TRUE]

\* The tarball path t comes to hold f.
PutFile(t, f) ==
    /\ disk_files' = IF f.file THEN disk_files \cup {t} ELSE disk_files \ {t}
    /\ tarball_md5' = [tarball_md5 EXCEPT ![t] = f.md5]
    /\ disk_corrupt' = IF f.corrupt THEN disk_corrupt \cup {t} ELSE disk_corrupt \ {t}

\* What lies at a directory path: whether a directory, whether it holds
\* info/index.json, and its info/repodata_record.json.
DirAt(d) ==
    [dir |-> d \in disk_dirs, index_json |-> d \in disk_index_json,
     repodata_record |-> disk_repodata_record[d]]

NoDir == [dir |-> FALSE, index_json |-> FALSE, repodata_record |-> None]

\* An extraction that stopped half-way: a directory without info/index.json.
PartialDir == [dir |-> TRUE, index_json |-> FALSE, repodata_record |-> None]

\* The directory path d comes to hold x.
PutDir(d, x) ==
    /\ disk_dirs' = IF x.dir THEN disk_dirs \cup {d} ELSE disk_dirs \ {d}
    /\ disk_index_json' = IF x.index_json THEN disk_index_json \cup {d}
                          ELSE disk_index_json \ {d}
    /\ disk_repodata_record' = [disk_repodata_record EXCEPT ![d] = x.repodata_record]

\* The content hash of the package file a channel serves at a url.
remote_md5(url) == 1

\* The file cache_axn.execute brings to target_full_path: a copy of the file a
\* file:// url names, or the download of a remote url.
fetched(a) ==
    IF is_file_url(a.url) THEN FileAt(a.url.path)
    ELSE [file |-> TRUE, md5 |-> remote_md5(a.url), corrupt |-> FALSE]

\* cache_axn.execute entered: what lay at target_full_path is moved aside.
CacheExecuteBegins ==
    hold' = [hold EXCEPT !.cache_axn = FileAt(axns.cache_axn.target_full_path)]

\* cache_axn.execute stopped half-way: a partial file may lie at target_full_path.
CacheExecuteFails ==
    /\ CacheExecuteBegins
    /\ \E f \in {NoFile, PartialFile} : PutFile(axns.cache_axn.target_full_path, f)
    /\ UNCHANGED <<dirVars, records>>

\* cache_axn.execute(progress_update_cache_axn): the tarball is brought to
\* target_full_path and its md5 compared with md5sum when one is given; a
\* failure may leave a partial file there.
CacheExecute ==
    /\ current_step = "cache_execute"
    /\ \/ /\ fetched(axns.cache_axn).file
          /\ axns.cache_axn.md5sum # 0 => fetched(axns.cache_axn).md5 = axns.cache_axn.md5sum
          /\ CacheExecuteBegins
          /\ PutFile(axns.cache_axn.target_full_path, fetched(axns.cache_axn))
          /\ UNCHANGED <<dirVars, records>>
          /\ Returns("cache_execute")
       \/ /\ CacheExecuteFails
          /\ Raises("cache_execute")
    /\ UNCHANGED <<execVars>>

\* extract_axn.verify()
ExtractVerify ==
    /\ current_step = "extract_verify"
    /\ \/ Returns("extract_verify")
       \/ Raises("extract_verify")
    /\ UNCHANGED <<execVars, diskVars, records, hold>>

\* The record ExtractPackageAction.execute builds from info/index.json.
extracted_record(a) ==
    PackageCacheRecord(a.record_or_spec, a.md5sum, a.source_full_path, a.target_full_path)

\* PackageCache.insert writes the record to info/repodata_record.json of its
\* extracted directory.
written_repodata_record(pcrec) == repodata_json(pcrec.md5)

\* extract_axn.execute entered: what lay at target_full_path is moved aside.
ExtractExecuteBegins ==
    hold' = [hold EXCEPT !.extract_axn = DirAt(axns.extract_axn.target_full_path)]

\* extract_axn.execute stopped half-way: target_full_path is as it was, or holds
\* a partial directory without info/index.json.
ExtractExecuteFails ==
    /\ ExtractExecuteBegins
    /\ \/ UNCHANGED dirVars
       \/ PutDir(axns.extract_axn.target_full_path, PartialDir)
    /\ UNCHANGED <<fileVars, records>>

\* extract_axn.execute(progress_update_extract_axn): the tarball is unpacked into
\* target_full_path and the record inserted into the target root's index; a
\* failure may leave a partial directory, without info/index.json.
ExtractExecute ==
    /\ current_step = "extract_execute"
    /\ \/ /\ axns.extract_axn.source_full_path \in disk_files
          /\ axns.extract_axn.source_full_path \notin disk_corrupt
          /\ ExtractExecuteBegins
          /\ PutDir(axns.extract_axn.target_full_path,
                    [dir |-> TRUE, index_json |-> TRUE,
                     repodata_record |->
                         written_repodata_record(extracted_record(axns.extract_axn))])
          /\ records' = insert(records, axns.extract_axn.target_pkgs_dir.root,
                               extracted_record(axns.extract_axn))
          /\ UNCHANGED fileVars
          /\ Returns("extract_execute")
       \/ /\ ExtractExecuteFails
          /\ Raises("extract_execute")
    /\ UNCHANGED <<execVars>>

\* extract_axn.reverse(): undoes what execute did at target_full_path; nothing
\* if execute never started.
ExtractReverse ==
    /\ current_step = "extract_reverse"
    /\ IF started("extract_execute")
       THEN PutDir(axns.extract_axn.target_full_path, hold.extract_axn)
       ELSE UNCHANGED dirVars
    /\ hold' = [hold EXCEPT !.extract_axn = None]
    /\ calls' = Append(calls, call("extract_reverse", FALSE))
    /\ Proceed
    /\ UNCHANGED <<execVars, fileVars, records, exc>>

\* cache_axn.reverse(): undoes what execute did at target_full_path; nothing if
\* execute never started.
CacheReverse ==
    /\ current_step = "cache_reverse"
    /\ IF started("cache_execute")
       THEN PutFile(axns.cache_axn.target_full_path, hold.cache_axn)
       ELSE UNCHANGED fileVars
    /\ hold' = [hold EXCEPT !.cache_axn = None]
    /\ calls' = Append(calls, call("cache_reverse", FALSE))
    /\ Proceed
    /\ UNCHANGED <<execVars, dirVars, records, exc>>

\* cache_axn.cleanup(): what execute moved aside is removed.
CacheCleanup ==
    /\ current_step = "cache_cleanup"
    /\ hold' = [hold EXCEPT !.cache_axn = None]
    /\ calls' = Append(calls, call("cache_cleanup", FALSE))
    /\ Proceed
    /\ UNCHANGED <<execVars, diskVars, records, exc>>

\* extract_axn.cleanup(): what execute moved aside is removed.
ExtractCleanup ==
    /\ current_step = "extract_cleanup"
    /\ hold' = [hold EXCEPT !.extract_axn = None]
    /\ calls' = Append(calls, call("extract_cleanup", FALSE))
    /\ Proceed
    /\ UNCHANGED <<execVars, diskVars, records, exc>>

\* Mutant of captured: the returned exception is dropped.
captured_dropped(excs, e) == excs

\* exceptions.append(exc) when _execute_actions returned one.
captured(excs, e) == IF e # None THEN Append(excs, e) ELSE excs

\* _execute_actions returns (e after the except block, None after the else
\* block) and the loop goes on with the next ref.
ReturnRef ==
    /\ pc = "return"
    /\ exceptions' = captured(exceptions, exc)
    /\ exc' = None
    /\ idx' = idx + 1
    /\ pc' = "for"
    /\ UNCHANGED <<cacheVars, otherVars, hold, disk_before,
                   link_precs, paired_actions, prepared, pos, result, calls>>

\* if exceptions: raise CondaMultiError(exceptions)
Finish ==
    /\ pc = "for"
    /\ idx > Len(paired_actions)
    /\ pc' = "done"
    /\ result' = IF exceptions # <<>> THEN "CondaMultiError" ELSE "returned"
    /\ UNCHANGED <<cacheVars, otherVars, hold, disk_before,
                   link_precs, paired_actions, prepared, idx, pos, exc,
                   exceptions, calls>>

Next ==
    \/ Prepare
    \/ EarlyReturn
    \/ EnterLoop
    \/ SkipRef
    \/ BeginRef
    \/ CacheVerify
    \/ CacheExecute
    \/ ExtractVerify
    \/ ExtractExecute
    \/ ExtractReverse
    \/ CacheReverse
    \/ CacheCleanup
    \/ ExtractCleanup
    \/ ReturnRef
    \/ Finish

\* A batch of one ref per package, each with a url; each package has its tarball
\* in at most one root and its extracted directory in at most one root.
Init ==
    /\ is_writable \in [Roots -> BOOLEAN]
    /\ \E tr \in [Pkgs -> 0..NRoots], er \in [Pkgs -> 0..NRoots] :
          InitCaches([r \in Roots |-> [p \in Pkgs |->
              [tar |-> tr[p] = r, ext |-> er[p] = r,
               md5 |-> IF tr[p] = r \/ er[p] = r THEN 1 ELSE 0]]])
    /\ \E m \in [Pkgs -> 0..1] :
          link_precs = [i \in 1..Len(PkgOrder) |->
              [pkey |-> PkgOrder[i], md5 |-> m[PkgOrder[i]],
               url |-> remote_url(PkgOrder[i])]]
    /\ InitExecutor
    /\ OtherIdle

Spec == Init /\ [][Next]_vars

----------------------------------------------------------------------------
\* Signals.  execute() runs its loop under signal_handler(conda_signal_handler):
\* on SIGINT or SIGTERM the handler raises inside the call that is running.

interrupt(step) == [kind |-> "signal", ref |-> idx, step |-> step]

\* What the interrupted call leaves on disk.
InterruptedCall ==
    CASE current_step = "cache_execute" -> CacheExecuteFails
      [] current_step = "extract_execute" -> ExtractExecuteFails
      [] OTHER -> UNCHANGED <<diskVars, records, hold>>

\* The handler's exception is an Exception: except Exception as e catches it.
InterruptCaught ==
    /\ pc = "try"
    /\ InterruptedCall
    /\ calls' = Append(calls, call(current_step, TRUE))
    /\ exc' = interrupt(current_step)
    /\ Goto(block_after_try(TRUE))
    /\ UNCHANGED <<execVars>>

\* The handler's exception is no Exception: it passes the except clause and
\* leaves _execute_actions and execute().
InterruptUncaught ==
    /\ pc = "try"
    /\ InterruptedCall
    /\ calls' = Append(calls, call(current_step, TRUE))
    /\ exc' = interrupt(current_step)
    /\ pc' = "done"
    /\ pos' = 0
    /\ result' = "CondaSignalInterrupt"
    /\ UNCHANGED <<is_writable, link_precs, paired_actions, prepared, idx, exceptions,
                   disk_before, otherVars>>

NextSignal ==
    \/ Next
    \/ InterruptCaught
    \/ InterruptUncaught

SpecSignal == Init /\ [][NextSignal]_vars

SpecPlan == InitPlan /\ [][Prepare]_vars

----------------------------------------------------------------------------
\* PackageCache.get_entry_to_link

\* The pkey of the ref `conda install path/to/package.tar.bz2` makes for a
\* package: the same name, version and build under the channel '<unknown>'.
unknown_channel == [p \in Pkgs |-> IF p = "x" THEN "<unknown>::x" ELSE "<unknown>::y"]

\* PackageRef.dist_str(): "<channel>::<name>-<version>-<build>"
dist_str(pkey) ==
    IF pkey \in Pkgs
    THEN [channel |-> "defaults", dist_name |-> pkey]
    ELSE [channel |-> "<unknown>",
          dist_name |-> CHOOSE p \in Pkgs : unknown_channel[p] = pkey]

\* dist_str.rsplit(':', 1)[-1]
without_channel(d) == d.dist_name

\* PackageCache._scan_for_dist_no_channel(dist_str) on root r: the first record
\* of the index with that channel-less name, or None.
scan_for_dist_no_channel(r, name) ==
    first_or_none(SelectSeq(values(r),
                            LAMBDA pcrec : without_channel(dist_str(pcrec.pkey)) = name))

\* The concatenation without the read-only caches.
all_caches_writable_only == writable_caches.caches

\* concatv(cls.writable_caches(), cls.read_only_caches())
all_caches == writable_caches.caches \o read_only_caches

\* PackageCache.query_all(package_ref): concatv's arguments are evaluated when
\* the generator is made, so the CondaError of writable_caches() is raised by
\* the call itself.
query_all(pref) ==
    IF writable_caches.kind = "raise" THEN writable_caches
    ELSE [kind |-> "ok", records |-> concat_query(all_caches, pref)]

\* next((cache._scan_for_dist_no_channel(dist_str) for cache in caches if cache), None):
\* the generator's first item, which is the scan of the first cache.
first_scan(caches, name) ==
    IF caches = <<>> THEN None ELSE scan_for_dist_no_channel(Head(caches), name)

not_found == [kind |-> "raise", exc |-> "CondaError", message |-> "No package found"]

\* PackageCache.get_entry_to_link(package_ref): the record returned or the
\* error raised.
get_entry_to_link(pref) ==
    IF query_all(pref).kind = "raise" THEN query_all(pref)
    ELSE LET found == SelectSeq(query_all(pref).records, is_extracted)
         IN  IF found # <<>> THEN Head(found)
             ELSE LET pc_entry == first_scan(all_caches, without_channel(dist_str(pref.pkey)))
                  IN  IF pc_entry # None THEN pc_entry ELSE not_found

\* The refs get_entry_to_link is called with: package x of a known channel or
\* of the channel '<unknown>'.
LinkRefs == {[pkey |-> k, md5 |-> 0, url |-> None] : k \in {"x", unknown_channel["x"]}}

GetEntryToLink ==
    /\ entry_to_link = None
    /\ \E pref \in LinkRefs :
          entry_to_link' = [package_ref |-> pref, outcome |-> get_entry_to_link(pref),
                            query_all |-> query_all(pref)]
    /\ UNCHANGED exceptLink

\* Every combination of what the roots hold of package x, and no call made yet.
InitLink ==
    /\ is_writable \in [Roots -> BOOLEAN]
    /\ \E h \in [Roots -> Holdings] :
          InitCaches([r \in Roots |-> [p \in Pkgs |-> IF p = "x" THEN h[r] ELSE NoHolding]])
    /\ link_precs = <<>>
    /\ InitExecutor
    /\ OtherIdle

SpecLink == InitLink /\ [][GetEntryToLink]_vars

----------------------------------------------------------------------------
\* Properties of the planner.  They are stated over the outcome prepare() left
\* for each ref, in the states where the caches are still as the planner saw
\* them.

\* prepare() has run and no action has touched the caches yet.
JustPlanned ==
    \/ pc = "check"
    \/ pc = "done" /\ result \in {"AssertionError", "CondaError"}

\* The refs whose planning ended: those stored, and the one that raised.
PlannedRefs ==
    {i \in 1..Len(link_precs) :
        \/ i <= Len(paired_actions)
        \/ i = Len(paired_actions) + 1 /\ result \in {"AssertionError", "CondaError"}}

\* What make_actions_for_record gave for the i-th ref.
Outcome(i) ==
    IF i <= Len(paired_actions) THEN paired_actions[i].axns ELSE raises(result)

HoldsExtracted(r, pref) ==
    /\ records[r][pref.pkey] # None
    /\ records[r][pref.pkey].extracted_package_dir \in disk_index_json

HoldsFetched(r, pref) ==
    /\ records[r][pref.pkey] # None
    /\ records[r][pref.pkey].package_tarball_full_path \in disk_files

RuleR0(pref) == pref.md5 # 0 /\ \E r \in Roots : HoldsExtracted(r, pref)

RuleR1(pref) ==
    ~RuleR0(pref) /\ \E r \in Roots : is_writable[r] /\ HoldsFetched(r, pref)

RuleR2(pref) ==
    /\ ~RuleR0(pref)
    /\ ~RuleR1(pref)
    /\ \E r \in Roots : ~is_writable[r] /\ HoldsFetched(r, pref)

SomeWritable == \E r \in Roots : is_writable[r]

\* The first root, in declared order, that satisfies Test.
FirstRoot(Test(_)) == CHOOSE r \in Roots : Test(r) /\ \A q \in 1..(r - 1) : ~Test(q)

FirstWritableRoot == FirstRoot(LAMBDA r : is_writable[r])

\* C2: planning gives (None, None) exactly when the ref carries an md5 and some
\* root, writable or read-only, holds an extracted record equal to the ref; every
\* other plan that planning returns contains an ExtractPackageAction.
C2_NoOpIffMd5AndExtracted ==
    JustPlanned =>
        \A i \in PlannedRefs :
            /\ (Outcome(i) = plan(None, None)) <=> RuleR0(link_precs[i])
            /\ (Outcome(i).kind = "plan" /\ ~RuleR0(link_precs[i]))
                   => Outcome(i).extract_axn.kind = "ExtractPackageAction"

\* C2 witness: a no-op planned from an extracted record that only a read-only
\* root holds.
C2_Witness ==
    /\ pc = "check"
    /\ \E i \in PlannedRefs :
          /\ Outcome(i) = plan(None, None)
          /\ \A r \in Roots : HoldsExtracted(r, link_precs[i]) => ~is_writable[r]

\* C3: when R0 does not apply and a writable root holds a fetched record equal to
\* the ref, the plan is (None, ExtractPackageAction) and the extract's source is the
\* tarball of the first such writable root, whatever the read-only roots hold.
C3_WritableTarballExtractedInPlace ==
    JustPlanned =>
        \A i \in PlannedRefs :
            RuleR1(link_precs[i]) =>
                LET w == FirstRoot(LAMBDA r : is_writable[r] /\ HoldsFetched(r, link_precs[i]))
                IN  /\ Outcome(i).kind = "plan"
                    /\ Outcome(i).cache_axn = None
                    /\ Outcome(i).extract_axn.kind = "ExtractPackageAction"
                    /\ Outcome(i).extract_axn.source_full_path
                           = records[w][link_precs[i].pkey].package_tarball_full_path

\* C3 witness: R1 planned while a read-only root declared earlier holds the
\* tarball too.
C3_Witness ==
    /\ pc = "check"
    /\ \E i \in PlannedRefs :
          /\ RuleR1(link_precs[i])
          /\ Outcome(i).cache_axn = None
          /\ \E r, w \in Roots :
                /\ r < w
                /\ ~is_writable[r] /\ HoldsFetched(r, link_precs[i])
                /\ is_writable[w] /\ HoldsFetched(w, link_precs[i])

\* C4: when R0 and R1 do not apply, a read-only root holds a fetched record equal
\* to the ref and a writable root exists, the plan is (CacheUrlAction,
\* ExtractPackageAction); the fetch url is the file url of the read-only root's
\* tarball, not the ref's url, and the fetch target is the first writable root.
C4_ReadOnlyTarballPromoted ==
    JustPlanned =>
        \A i \in PlannedRefs :
            (RuleR2(link_precs[i]) /\ SomeWritable) =>
                LET ro == FirstRoot(LAMBDA r : ~is_writable[r] /\ HoldsFetched(r, link_precs[i]))
                IN  /\ Outcome(i).kind = "plan"
                    /\ Outcome(i).cache_axn.kind = "CacheUrlAction"
                    /\ Outcome(i).extract_axn.kind = "ExtractPackageAction"
                    /\ Outcome(i).cache_axn.url =
                           [kind |-> "url", scheme |-> "file",
                            path |-> records[ro][link_precs[i].pkey].package_tarball_full_path]
                    /\ Outcome(i).cache_axn.url # link_precs[i].url
                    /\ Outcome(i).cache_axn.target_pkgs_dir.root = FirstWritableRoot

\* C4 witness: R2 planned for a ref that has a url of its own.
C4_Witness ==
    /\ pc = "check"
    /\ \E i \in PlannedRefs :
          /\ RuleR2(link_precs[i])
          /\ link_precs[i].url # None
          /\ Outcome(i).cache_axn # None

\* C5: when no rule R0-R2 applies and a writable root exists, a ref with a url is
\* planned as (CacheUrlAction from ref.url into the first writable root,
\* ExtractPackageAction); for a ref without url planning raises AssertionError and
\* stores no actions for it.
C5_DownloadNeedsUrl ==
    JustPlanned =>
        \A i \in PlannedRefs :
            LET pref == link_precs[i]
            IN  (~RuleR0(pref) /\ ~RuleR1(pref) /\ ~RuleR2(pref) /\ SomeWritable) =>
                    IF pref.url # None
                    THEN /\ Outcome(i).kind = "plan"
                         /\ Outcome(i).cache_axn.kind = "CacheUrlAction"
                         /\ Outcome(i).cache_axn.url = pref.url
                         /\ Outcome(i).cache_axn.target_pkgs_dir.root = FirstWritableRoot
                         /\ Outcome(i).extract_axn.kind = "ExtractPackageAction"
                    ELSE /\ Outcome(i) = raises("AssertionError")
                         /\ i > Len(paired_actions)

\* C5 witness: planning of a ref without url and without any cache hit has
\* raised.
C5_Witness ==
    /\ pc = "done"
    /\ result = "AssertionError"
    /\ \E i \in PlannedRefs :
          /\ link_precs[i].url = None
          /\ SomeWritable
          /\ \A r \in Roots : records[r][link_precs[i].pkey] = None

----------------------------------------------------------------------------
\* Properties of the executor, stated over the log of method calls.

\* The calls made on the actions of the i-th ref, in order.
RefCalls(i) == SelectSeq(calls, LAMBDA c : c.ref = i)

Called(i, step) == \E k \in 1..Len(calls) : calls[k].ref = i /\ calls[k].step = step

CalledOk(i, step) ==
    \E k \in 1..Len(calls) : calls[k].ref = i /\ calls[k].step = step /\ ~calls[k].raised

\* Some verify() or execute() of the i-th ref raised.
RefRaised(i) == \E k \in 1..Len(calls) : calls[k].ref = i /\ calls[k].raised

CountCalls(i, step) ==
    Cardinality({k \in 1..Len(calls) : calls[k].ref = i /\ calls[k].step = step})

HasFetch(i) == paired_actions[i].axns.cache_axn # None

HasExtract(i) == paired_actions[i].axns.extract_axn # None

\* _execute_actions has run to its end for the i-th ref.
Finished(i) ==
    /\ pc \in {"for", "try", "except", "else", "return", "done"}
    /\ idx > i \/ (idx = i /\ pc = "return")

\* execute() ran to its end: it returned or raised the aggregated error.
Completed == pc = "done" /\ result \in {"returned", "CondaMultiError"}

\* C1: once cleanup() has run for a ref planned as (CacheUrlAction,
\* ExtractPackageAction) whose verify and execute calls all returned, the index of
\* the target root holds a record for the ref that is fetched and extracted.
C1_SuccessfulPairIsCached ==
    \A i \in 1..Len(paired_actions) :
        (/\ HasFetch(i) /\ HasExtract(i)
         /\ ~RefRaised(i)
         /\ Called(i, "cache_cleanup") /\ Called(i, "extract_cleanup")) =>
            LET t == paired_actions[i].axns.cache_axn.target_pkgs_dir.root
                e == records[t][paired_actions[i].prec.pkey]
            IN  /\ e # None
                /\ e.package_tarball_full_path \in disk_files
                /\ e.extracted_package_dir \in disk_index_json

\* C1 witness: a downloaded and extracted ref right after its cleanup.
C1_Witness ==
    /\ pc = "return"
    /\ exc = None
    /\ HasFetch(idx) /\ HasExtract(idx)
    /\ Called(idx, "extract_cleanup")
    /\ ~is_file_url(paired_actions[idx].axns.cache_axn.url)

\* C6: when execute() completes, every ref of the mapping was processed: its
\* planned fetch action was verified and, unless verify raised, executed; its
\* planned extract action was verified, unless the fetch raised, and executed,
\* unless its verify raised.
C6_EveryRefProcessed ==
    Completed =>
        \A i \in 1..Len(paired_actions) :
            /\ HasFetch(i) =>
                  /\ Called(i, "cache_verify")
                  /\ CalledOk(i, "cache_verify") => Called(i, "cache_execute")
            /\ (HasExtract(i) /\ (HasFetch(i) => CalledOk(i, "cache_execute"))) =>
                  /\ Called(i, "extract_verify")
                  /\ CalledOk(i, "extract_verify") => Called(i, "extract_execute")

\* The calls a ref's except block must make: extract first, fetch second.
ExpectedReversal(i) ==
    (IF HasExtract(i) THEN <<"extract_reverse">> ELSE <<>>)
    \o (IF HasFetch(i) THEN <<"cache_reverse">> ELSE <<>>)

\* The steps of the i-th ref called after the call that raised.
StepsAfterRaise(i) ==
    LET rc == RefCalls(i)
        k == CHOOSE k \in 1..Len(rc) : rc[k].raised
    IN  [j \in 1..(Len(rc) - k) |-> rc[k + j].step]

\* C7: when a verify() or execute() of a ref raised, the calls that follow on
\* that ref are reverse() on the extract action and then reverse() on the fetch
\* action, each if it exists; the exception is in the list of captured ones once
\* the ref returns, and at completion every later ref has been processed.
C7_ReversalOnException ==
    \A i \in 1..Len(paired_actions) :
        (RefRaised(i) /\ Finished(i)) =>
            /\ StepsAfterRaise(i) = ExpectedReversal(i)
            /\ idx > i => \E k \in 1..Len(exceptions) : exceptions[k].ref = i
            /\ Completed =>
                  \A j \in (i + 1)..Len(paired_actions) :
                      (HasFetch(j) \/ HasExtract(j)) => RefCalls(j) # <<>>

\* C7 witness: the fetch raised, so the extract never started, and both were
\* reversed; the next ref went on.
C7_Witness ==
    /\ Len(paired_actions) >= 2
    /\ RefRaised(1)
    /\ ~Called(1, "extract_execute")
    /\ Called(1, "extract_reverse") /\ Called(1, "cache_reverse")
    /\ RefCalls(2) # <<>>

\* The refs that raised, in ref order.
RECURSIVE FailedFrom(_)
FailedFrom(i) ==
    IF i > Len(paired_actions) THEN <<>>
    ELSE (IF RefRaised(i) THEN <<i>> ELSE <<>>) \o FailedFrom(i + 1)

TerminalOnce(i, has, step) == IF has THEN CountCalls(i, step) = 1 ELSE CountCalls(i, step) = 0

\* C9: a processed ref gets exactly one terminal phase: cleanup() on each of its
\* actions and no reverse() if none of its calls raised, reverse() on each and no
\* cleanup() if one raised; no action is ever both cleaned up and reversed.
C9_OneTerminalPhase ==
    \A i \in 1..Len(paired_actions) :
        /\ ~(Called(i, "cache_cleanup") /\ Called(i, "cache_reverse"))
        /\ ~(Called(i, "extract_cleanup") /\ Called(i, "extract_reverse"))
        /\ (Finished(i) /\ RefCalls(i) # <<>>) =>
              IF RefRaised(i)
              THEN /\ TerminalOnce(i, HasFetch(i), "cache_reverse")
                   /\ TerminalOnce(i, HasExtract(i), "extract_reverse")
                   /\ ~Called(i, "cache_cleanup") /\ ~Called(i, "extract_cleanup")
              ELSE /\ TerminalOnce(i, HasFetch(i), "cache_cleanup")
                   /\ TerminalOnce(i, HasExtract(i), "extract_cleanup")
                   /\ ~Called(i, "cache_reverse") /\ ~Called(i, "extract_reverse")

\* C9 witness: one ref of the batch was cleaned up and the other reversed.
C9_Witness ==
    /\ Completed
    /\ \E i, j \in 1..Len(paired_actions) :
          /\ Called(i, "cache_cleanup") /\ Called(i, "extract_cleanup")
          /\ Called(j, "extract_reverse") /\ RefRaised(j)

TrySteps == {"cache_verify", "cache_execute", "extract_verify", "extract_execute"}

TerminalSteps == {"cache_reverse", "extract_reverse", "cache_cleanup", "extract_cleanup"}

Rank(step) ==
    CASE step = "cache_verify" -> 1
      [] step = "cache_execute" -> 2
      [] step = "extract_verify" -> 3
      [] step = "extract_execute" -> 4
      [] OTHER -> 5

\* C10: refs are processed one after the other in mapping order: the log never
\* returns to an earlier ref, and a later ref's first call comes only after a
\* cleanup() or reverse() of the ref before it; within a ref the order is
\* fetch.verify, fetch.execute, extract.verify, extract.execute, each execute
\* after its own verify returned, and no extract call of a ref whose fetch raised.
C10_SequentialInOrder ==
    /\ \A k \in 1..(Len(calls) - 1) :
          /\ calls[k].ref <= calls[k + 1].ref
          /\ calls[k].ref < calls[k + 1].ref => calls[k].step \in TerminalSteps
          /\ (calls[k].ref = calls[k + 1].ref /\ calls[k + 1].step \in TrySteps) =>
                /\ Rank(calls[k].step) < Rank(calls[k + 1].step)
                /\ ~calls[k].raised
    /\ \A i \in 1..Len(paired_actions) :
          /\ Called(i, "cache_execute") => CalledOk(i, "cache_verify")
          /\ Called(i, "extract_execute") => CalledOk(i, "extract_verify")
          /\ (HasFetch(i) /\ Called(i, "extract_verify")) => CalledOk(i, "cache_execute")
          /\ (\E k \in 1..Len(calls) :
                 calls[k].ref = i /\ calls[k].raised
                 /\ calls[k].step \in {"cache_verify", "cache_execute"})
                => ~Called(i, "extract_verify") /\ ~Called(i, "extract_execute")

\* C10 witness: the first ref's fetch raised and was reversed, then the second
\* ref was fetched and extracted.
C10_Witness ==
    /\ Len(paired_actions) >= 2
    /\ \E k \in 1..Len(calls) :
          calls[k].ref = 1 /\ calls[k].step = "cache_execute" /\ calls[k].raised
    /\ CalledOk(2, "cache_execute")
    /\ CalledOk(2, "extract_execute")

----------------------------------------------------------------------------
\* The registry of PackageCache objects (PackageCacheType.__call__).  A handle
\* is the identity of a PackageCache object, numbered in order of construction.

\* Mutant of registered: the lookup never finds the path.
registered_never(pkgs_dir) == FALSE

\* pkgs_dir in PackageCache._cache_
registered(pkgs_dir) == cache_[pkgs_dir] # 0

\* PackageCache(pkgs_dir) with a path: the registered handle, or a new object
\* that is registered under the path.
Construct(pkgs_dir) ==
    /\ IF registered(pkgs_dir)
       THEN /\ returned' = [arg |-> [kind |-> "path", pkgs_dir |-> pkgs_dir],
                            handle |-> cache_[pkgs_dir]]
            /\ UNCHANGED <<cache_, handles>>
       ELSE /\ handles < MaxHandles
            /\ handles' = handles + 1
            /\ cache_' = [cache_ EXCEPT ![pkgs_dir] = handles + 1]
            /\ returned' = [arg |-> [kind |-> "path", pkgs_dir |-> pkgs_dir],
                            handle |-> handles + 1]
    /\ constructed' = constructed \cup {[pkgs_dir |-> pkgs_dir, handle |-> returned'.handle]}
    /\ UNCHANGED <<exceptRegistry, retired>>

\* PackageCache(pkgs_dir) with a PackageCache object: isinstance(pkgs_dir, PackageCache)
ConstructFromHandle(h) ==
    /\ returned' = [arg |-> [kind |-> "PackageCache", handle |-> h], handle |-> h]
    /\ UNCHANGED <<exceptRegistry, cache_, handles, constructed,
                   retired>>

\* PackageCache.clear()
Clear ==
    /\ cache_' = [r \in Roots |-> 0]
    /\ constructed' = {}
    /\ retired' = 1..handles
    /\ returned' = None
    /\ UNCHANGED <<exceptRegistry, handles>>

NextRegistry ==
    \/ \E pkgs_dir \in Roots : Construct(pkgs_dir)
    \/ \E h \in 1..handles : ConstructFromHandle(h)
    \/ Clear

\* A process that has constructed no PackageCache yet.
InitRegistryOnly ==
    /\ is_writable \in [Roots -> BOOLEAN]
    /\ InitCaches([r \in Roots |-> [p \in Pkgs |-> NoHolding]])
    /\ link_precs = <<>>
    /\ InitExecutor
    /\ OtherIdle

SpecRegistry == InitRegistryOnly /\ [][NextRegistry]_vars

\* C16: between two clear() calls every path has at most one handle, the one
\* the registry holds, and every PackageCache(path) returned it; PackageCache(h)
\* on a handle returns h; and no handle constructed before a clear() is
\* returned for a path after it.
C16_OneHandlePerPath ==
    /\ \A c, d \in constructed : c.pkgs_dir = d.pkgs_dir => c.handle = d.handle
    /\ \A c \in constructed : cache_[c.pkgs_dir] = c.handle
    /\ \A c \in constructed : c.handle \notin retired
    /\ \A r \in Roots : cache_[r] # 0 => [pkgs_dir |-> r, handle |-> cache_[r]] \in constructed
    /\ (returned # None /\ returned.arg.kind = "PackageCache") =>
          returned.handle = returned.arg.handle
    /\ (returned # None /\ returned.arg.kind = "path") =>
          /\ returned.handle = cache_[returned.arg.pkgs_dir]
          /\ returned.handle \notin retired

\* C16 witness: after a clear(), a path was constructed again and a second
\* construction with that path returned the handle of the first.
C16_Witness ==
    /\ retired # {}
    /\ returned # None
    /\ returned.arg.kind = "path"
    /\ returned.handle < handles

----------------------------------------------------------------------------
\* PackageCache.is_writable and _check_writable.

\* Python truth of self.__is_writable: None and False are falsy.
truthy(v) == v.kind = "bool" /\ v.value

\* file_path_is_writable(join(self.pkgs_dir, PACKAGE_CACHE_MAGIC_FILE)) when the
\* root exists, create_package_cache_directory(self.pkgs_dir) when it does not.
probe(r) == write_permitted[r]

\* The root directory after the probe: create_package_cache_directory makes it
\* when the process is permitted to.
isdir_after_probe(r) == pkgs_dir_isdir[r] \/ write_permitted[r]

\* self._check_writable(): probes and stores the answer in self.__is_writable.
CheckWritable(r) ==
    /\ writable_memo' = [writable_memo EXCEPT ![r] = Bool(probe(r))]
    /\ pkgs_dir_isdir' = [pkgs_dir_isdir EXCEPT ![r] = isdir_after_probe(r)]

\* The value of the property: self.__is_writable or self._check_writable()
is_writable_value(r) == IF truthy(writable_memo[r]) THEN TRUE ELSE probe(r)

\* Some caller reads PackageCache(r).is_writable.
EvaluateIsWritable(r) ==
    /\ IF truthy(writable_memo[r])
       THEN UNCHANGED <<writable_memo, pkgs_dir_isdir>>
       ELSE CheckWritable(r)
    /\ evaluated' = [evaluated EXCEPT ![r] = Bool(is_writable_value(r))]
    /\ seen_false' = IF is_writable_value(r) THEN seen_false ELSE seen_false \cup {r}
    /\ UNCHANGED <<exceptWritable, write_permitted>>

\* load(): self._check_writable()
LoadChecksWritable(r) ==
    /\ CheckWritable(r)
    /\ UNCHANGED <<exceptWritable, write_permitted, evaluated,
                   seen_false>>

\* Something outside the process changes the permissions below the root.
ChangePermission(r) ==
    /\ write_permitted' = [write_permitted EXCEPT ![r] = ~write_permitted[r]]
    /\ UNCHANGED <<exceptWritable, writable_memo, pkgs_dir_isdir,
                   evaluated, seen_false>>

NextWritable ==
    \/ \E r \in Roots : EvaluateIsWritable(r)
    \/ \E r \in Roots : LoadChecksWritable(r)
    \/ \E r \in Roots : ChangePermission(r)

\* Fresh handles (__is_writable = None) on roots that exist or not, writable or
\* not.
InitWritable ==
    /\ write_permitted \in [Roots -> BOOLEAN]
    /\ pkgs_dir_isdir \in [Roots -> BOOLEAN]
    /\ writable_memo = [r \in Roots |-> None]
    /\ evaluated = [r \in Roots |-> None]
    /\ seen_false = {}
    /\ is_writable = write_permitted
    /\ InitCaches([r \in Roots |-> [p \in Pkgs |-> NoHolding]])
    /\ link_precs = <<>>
    /\ InitExecutor
    /\ entry_to_link = None
    /\ InitRegistry
    /\ NothingListed
    /\ NothingScanned
    /\ NoUrls
    /\ NoDists
    /\ NoProgress

SpecWritable == InitWritable /\ [][NextWritable]_vars

\* C17: once is_writable has evaluated to False on a handle, every later
\* evaluation on that handle is False, whatever changed on disk in between.
C17_ReadOnlyForLife ==
    \A r \in seen_false : evaluated[r] = Bool(FALSE)

----------------------------------------------------------------------------
\* PackageCache._dedupe_pkgs_dir_contents.  A name is a Python str: a sequence
\* of code points, compared and sorted as Python compares strings.

\* CONDA_TARBALL_EXTENSION: '.tar.bz2'
CONDA_TARBALL_EXTENSION == <<46, 116, 97, 114, 46, 98, 122, 50>>

\* The characters stems are made of: '-' and 'a'.
StemChars == {45, 97}

RECURSIVE StemsOfLength(_)
StemsOfLength(n) ==
    IF n = 0 THEN {<<>>}
    ELSE {Append(t, c) : t \in StemsOfLength(n - 1), c \in StemChars}

Stems == UNION {StemsOfLength(n) : n \in 1..MaxStem}

\* The names a listing is drawn from: every stem, bare and with the extension.
Names == Stems \cup {t \o CONDA_TARBALL_EXTENSION : t \in Stems}

RECURSIVE str_lt(_, _)
\* x < y on Python strings
str_lt(x, y) ==
    IF y = <<>> THEN FALSE
    ELSE IF x = <<>> THEN TRUE
    ELSE IF Head(x) # Head(y) THEN Head(x) < Head(y)
    ELSE str_lt(Tail(x), Tail(y))

RECURSIVE sorted(_)
\* sorted(pkgs_dir_contents)
sorted(names) ==
    IF names = {} THEN <<>>
    ELSE LET least == CHOOSE x \in names : \A y \in names \ {x} : str_lt(x, y)
         IN  <<least>> \o sorted(names \ {least})

\* _process(x, y): x is kept unless y is x + CONDA_TARBALL_EXTENSION.
process(contents, x, y) ==
    IF x \o CONDA_TARBALL_EXTENSION # y THEN Append(contents, x) ELSE contents

RECURSIVE reduce_process(_, _, _)
\* reduce(_process, seq): contents after the names of seq from position i on
\* have been handed to _process as y, each with its predecessor as x.
reduce_process(contents, seq, i) ==
    IF i > Len(seq) THEN contents
    ELSE reduce_process(process(contents, seq[i - 1], seq[i]), seq, i + 1)

\* contents and contents[-1] or ''
last_or_empty(contents) == IF contents # <<>> THEN contents[Len(contents)] ELSE <<>>

\* _dedupe_pkgs_dir_contents without its closing _process(last, ...) call.
dedupe_pkgs_dir_contents_without_last(pkgs_dir_contents) ==
    IF pkgs_dir_contents = {} THEN <<>>
    ELSE reduce_process(<<>>, sorted(pkgs_dir_contents), 2)

\* PackageCache._dedupe_pkgs_dir_contents(pkgs_dir_contents)
dedupe_pkgs_dir_contents(pkgs_dir_contents) ==
    IF pkgs_dir_contents = {} THEN <<>>
    ELSE LET seq == sorted(pkgs_dir_contents)
             contents == reduce_process(<<>>, seq, 2)
         IN  process(contents, seq[Len(seq)], last_or_empty(contents))

\* The listing of one directory is deduplicated.
Dedupe ==
    /\ deduped = None
    /\ deduped' = [kind |-> "list", names |-> dedupe_pkgs_dir_contents(listing), again |-> None]
    /\ UNCHANGED <<exceptDedupe, listing>>

\* The returned list is handed to _dedupe_pkgs_dir_contents once more.
DedupeAgain ==
    /\ deduped # None
    /\ deduped.again = None
    /\ deduped' = [deduped EXCEPT !.again = [kind |-> "list", names |-> dedupe_pkgs_dir_contents({deduped.names[i] : i \in 1..Len(deduped.names)})]]
    /\ UNCHANGED <<exceptDedupe, listing>>

RECURSIVE ListingsUpTo(_)
\* The listings of at most n names.
ListingsUpTo(n) ==
    IF n = 0 THEN {{}}
    ELSE LET shorter == ListingsUpTo(n - 1)
         IN  shorter \cup {l \cup {x} : l \in shorter, x \in Names}

\* Every listing of at most MaxListing names.
InitDedupe ==
    /\ listing \in ListingsUpTo(MaxListing)
    /\ deduped = None
    /\ is_writable = [r \in Roots |-> TRUE]
    /\ InitCaches([r \in Roots |-> [p \in Pkgs |-> NoHolding]])
    /\ link_precs = <<>>
    /\ InitExecutor
    /\ entry_to_link = None
    /\ InitRegistry
    /\ WritableSettled
    /\ NothingScanned
    /\ NoUrls
    /\ NoDists
    /\ NoProgress

SpecDedupe == InitDedupe /\ [][Dedupe \/ DedupeAgain]_vars

\* C18: the output of _dedupe_pkgs_dir_contents holds no name x for which
\* x + CONDA_TARBALL_EXTENSION is in the listing, holds every other name of the
\* listing exactly once and nothing else, and is sorted.
C18_DedupeKeepsTarballOfPair ==
    deduped # None =>
        LET out == deduped.names
        IN  /\ \A k \in 1..Len(out) : out[k] \o CONDA_TARBALL_EXTENSION \notin listing
            /\ \A k \in 1..Len(out) : out[k] \in listing
            /\ \A x \in listing :
                  x \o CONDA_TARBALL_EXTENSION \notin listing =>
                      Cardinality({k \in 1..Len(out) : out[k] = x}) = 1
            /\ \A i, j \in 1..Len(out) : i < j => str_lt(out[i], out[j])

\* C31: deduplicating the output of _dedupe_pkgs_dir_contents once more gives
\* the same list, and the empty listing gives the empty list.
C31_DedupeIdempotent ==
    /\ (deduped # None /\ listing = {}) => deduped.names = <<>>
    /\ (deduped # None /\ deduped.again # None) => deduped.again.names = deduped.names

\* A listing with a directory and its tarball, of which the first pass dropped
\* a name, has been deduplicated twice.
C31_Witness ==
    /\ deduped # None
    /\ deduped.again # None
    /\ \E x \in listing : x \o CONDA_TARBALL_EXTENSION \in listing
    /\ Len(deduped.names) < Cardinality(listing)
    /\ deduped.names # <<>>

----------------------------------------------------------------------------
\* The scanner: PackageCache.load and _make_single_record.  Both are followed
\* over a value that holds the whole disk, so that one load() is one step.

\* The disk as one value.
Disk ==
    [files |-> disk_files, dirs |-> disk_dirs, index_json |-> disk_index_json,
     md5 |-> tarball_md5, corrupt |-> disk_corrupt,
     repodata_record |-> disk_repodata_record, links |-> disk_links]

\* The name of a package's directory as a str: 'x' and 'y'.
stem_name == [p \in Pkgs |-> IF p = "x" THEN <<120>> ELSE <<121>>]

\* basename(path)
basename(path) ==
    stem_name[path.stem] \o (IF path.tar THEN CONDA_TARBALL_EXTENSION ELSE <<>>)

\* listdir(self.pkgs_dir)
listdir(D, r) ==
    {basename(t) : t \in {u \in D.files \cup D.links : u.root = r}}
    \cup {basename(d) : d \in {e \in D.dirs : e.root = r}}

\* join(self.pkgs_dir, base_name)
full_path(r, base_name) ==
    CHOOSE path \in AllTarballs \cup AllDirs : path.root = r /\ basename(path) = base_name

\* rm_rf(extracted_package_dir)
rm_rf_dir(D, d) ==
    [D EXCEPT !.dirs = @ \ {d}, !.index_json = @ \ {d}, !.repodata_record[d] = None]

\* rm_rf(package_tarball_full_path)
rm_rf_file(D, t) ==
    [D EXCEPT !.files = @ \ {t}, !.md5[t] = 0, !.corrupt = @ \ {t}]

\* extract_tarball(package_tarball_full_path, extracted_package_dir) that ran
\* to its end.
extract_tarball(D, d) ==
    [D EXCEPT !.dirs = @ \cup {d}, !.index_json = @ \cup {d}]

\* extract_tarball that raised EOFError or ReadError: what was unpacked before
\* the end of the archive stays.
extract_tarball_raises(D, d) ==
    [D EXCEPT !.dirs = @ \cup {d}]

\* The tarball can be read to its end as an archive.
readable_archive(D, t) == t \in D.files /\ t \notin D.corrupt

\* compute_md5sum(package_tarball_full_path) if isfile(...) else None
md5_if_file(D, t) == IF t \in D.files THEN D.md5[t] ELSE 0

\* The end of _make_single_record writing info/repodata_record.json without
\* asking is_writable.
record_from_index_json_always_written(D, r, t, d) ==
    LET pcrec == PackageCacheRecord(d.stem, md5_if_file(D, t), t, d)
    IN  [disk |-> [D EXCEPT !.repodata_record[d] = written_repodata_record(pcrec)],
         rec |-> pcrec]

\* The end of _make_single_record without the write of info/repodata_record.json.
record_from_index_json_never_written(D, r, t, d) ==
    [disk |-> D, rec |-> PackageCacheRecord(d.stem, md5_if_file(D, t), t, d)]

\* The end of _make_single_record, with index_json_record in hand: the record
\* is built with the tarball's md5 and, in a writable root, written to
\* info/repodata_record.json.
record_from_index_json(D, r, t, d) ==
    LET pcrec == PackageCacheRecord(d.stem, md5_if_file(D, t), t, d)
    IN  [disk |-> IF is_writable[r]
                  THEN [D EXCEPT !.repodata_record[d] = written_repodata_record(pcrec)]
                  ELSE D,
         rec |-> pcrec]

\* except (EOFError, ReadError) that leaves the tarball where it is.
corrupt_archive_kept(D, t) == [disk |-> D, rec |-> None]

\* except (EOFError, ReadError): rm_rf(package_tarball_full_path); return None
corrupt_archive(D, t) == [disk |-> rm_rf_file(D, t), rec |-> None]

\* PackageCache._make_single_record(package_tarball_full_path) in root r: the
\* disk it leaves and the record it returns, or None.
make_single_record(D, r, path) ==
    LET t == [path EXCEPT !.tar = TRUE]
        d == [path EXCEPT !.tar = FALSE]
    IN  IF D.repodata_record[d] # None
        THEN [disk |-> D, rec |-> PackageCacheRecord(d.stem, D.repodata_record[d].md5, t, d)]
        ELSE IF d \in D.index_json
        THEN record_from_index_json(D, r, t, d)
        ELSE IF d \in D.dirs /\ t \notin D.files
        THEN [disk |-> D, rec |-> None]
        ELSE IF is_writable[r]
        THEN IF readable_archive(D, t)
             THEN record_from_index_json(extract_tarball(rm_rf_dir(D, d), d), r, t, d)
             ELSE corrupt_archive(extract_tarball_raises(rm_rf_dir(D, d), d), t)
        ELSE IF readable_archive(D, t)
             THEN record_from_index_json(D, r, t, d)
             ELSE corrupt_archive(D, t)

\* One pass of the for loop of load() in root r, over the name base_name.
load_name(state, r, base_name) ==
    LET path == full_path(r, base_name)
        D == state.disk
    IN  IF path \in D.links THEN state
        ELSE IF (path.tar /\ path \in D.files) \/ (~path.tar /\ path \in D.index_json)
        THEN LET made == make_single_record(D, r, path)
             IN  [disk |-> made.disk,
                  records |-> IF made.rec # None
                              THEN [state.records EXCEPT ![made.rec.pkey] = made.rec]
                              ELSE state.records]
        ELSE state

RECURSIVE load_names(_, _, _, _)
load_names(state, r, names, i) ==
    IF i > Len(names) THEN state
    ELSE load_names(load_name(state, r, names[i]), r, names, i + 1)

\* PackageCache.load() on root r: the disk it leaves and the index it builds.
load(D, r) ==
    LET empty == [disk |-> D, records |-> [p \in Pkgs |-> None]]
    IN  IF ~pkgs_dir_isdir[r] THEN empty
        ELSE load_names(empty, r, dedupe_pkgs_dir_contents(listdir(D, r)), 1)

\* load() on root r ran: the disk and the index of r are as it leaves them.
load_ran(r) ==
    /\ LET out == load(Disk, r)
       IN  /\ disk_files' = out.disk.files
           /\ disk_dirs' = out.disk.dirs
           /\ disk_index_json' = out.disk.index_json
           /\ tarball_md5' = out.disk.md5
           /\ disk_corrupt' = out.disk.corrupt
           /\ disk_repodata_record' = out.disk.repodata_record
           /\ records' = [records EXCEPT ![r] = out.records]
    /\ just_loaded' = r
    /\ UNCHANGED <<exceptScan, is_writable, link_precs, paired_actions, prepared, pc, idx,
                   pos, exc, exceptions, result, calls, hold, disk_before, disk_links>>

\* The first access to the index of PackageCache(r) runs load().
Load(r) ==
    /\ load_ran(r)
    /\ scan_log' = [last |-> [op |-> "load", root |-> r, e |-> None],
                    prior |-> scan_log.last, index |-> records[r]]

\* A tarball is downloaded to a root that has none of that name, by this
\* process or by another.
TarballArrives(t) ==
    /\ pkgs_dir_isdir[t.root]
    /\ t \notin disk_files \cup disk_links
    /\ \E h \in Md5s : PutFile(t, [file |-> TRUE, md5 |-> h, corrupt |-> FALSE])
    /\ just_loaded' = 0
    /\ scan_log' = NothingLogged
    /\ UNCHANGED <<exceptScan, is_writable, dirVars, records, link_precs, paired_actions,
                   prepared, pc, idx, pos, exc, exceptions, result, calls, hold,
                   disk_before, disk_links>>

\* insert(package_cache_record) ran on the index of root r and returned.
insert_ran(r, pcrec) ==
    /\ is_writable[r]
    /\ pcrec.extracted_package_dir.root = r
    /\ pcrec.extracted_package_dir \in disk_index_json
    /\ disk_repodata_record' = [disk_repodata_record EXCEPT
           ![pcrec.extracted_package_dir] = written_repodata_record(pcrec)]
    /\ records' = insert(records, r, pcrec)
    /\ just_loaded' = 0
    /\ UNCHANGED <<exceptScan, is_writable, fileVars, disk_dirs, disk_index_json, link_precs,
                   paired_actions, prepared, pc, idx, pos, exc, exceptions, result, calls,
                   hold, disk_before, disk_links>>

\* PackageCache(r).insert(package_cache_record) on a loaded index, as
\* ExtractPackageAction.execute calls it once the package is unpacked into
\* extracted_package_dir: info/repodata_record.json is written there and the
\* record becomes the entry of its ref.
Insert(r, pcrec) ==
    /\ just_loaded = r
    /\ insert_ran(r, pcrec)
    /\ scan_log' = [last |-> [op |-> "insert", root |-> r, e |-> pcrec],
                    prior |-> NoOperation, index |-> NoIndex]

\* The records ExtractPackageAction.execute can hand to insert for a package
\* unpacked in root r.
InsertedRecords(r) ==
    {PackageCacheRecord(p, m, join(pkgs_dir_path(r), p, TRUE), join(pkgs_dir_path(r), p, FALSE)) :
        p \in Pkgs, m \in Md5s}

NextScan ==
    \/ \E r \in Roots : Load(r)
    \/ \E t \in AllTarballs : TarballArrives(t)
    \/ \E r \in Roots : \E pcrec \in InsertedRecords(r) : Insert(r, pcrec)

\* What can lie at a package's tarball path and at its directory path before a
\* scan: no tarball, a readable one, a truncated one, or a symbolic link; no
\* directory, a partial one, or an extracted one with or without
\* repodata_record.json, whose md5 is the hash of the tarball if there is one.
ScanHoldings ==
    {h \in [file : {NoFile, PartialFile} \cup {[file |-> TRUE, md5 |-> m, corrupt |-> FALSE] : m \in Md5s},
            link : BOOLEAN,
            dir : {NoDir, PartialDir}
                  \cup {[dir |-> TRUE, index_json |-> TRUE, repodata_record |-> j] :
                           j \in {None} \cup {repodata_json(m) : m \in 0..NMd5}}] :
        /\ h.link => ~h.file.file
        /\ (h.file.file /\ h.dir.repodata_record # None) =>
              h.dir.repodata_record.md5 = h.file.md5}

\* One root exists, holds the two packages in any of these ways and has not
\* been loaded; the other configured roots do not exist and cannot be created.
InitScan ==
    /\ \E r0 \in Roots, w \in BOOLEAN, h \in [Pkgs -> ScanHoldings] :
          /\ is_writable = [r \in Roots |-> r = r0 /\ w]
          /\ pkgs_dir_isdir = [r \in Roots |-> r = r0]
          /\ disk_files = {t \in AllTarballs : t.root = r0 /\ h[t.stem].file.file}
          /\ tarball_md5 = [t \in AllTarballs |-> IF t.root = r0 THEN h[t.stem].file.md5 ELSE 0]
          /\ disk_corrupt = {t \in AllTarballs : t.root = r0 /\ h[t.stem].file.corrupt}
          /\ disk_links = {t \in AllTarballs : t.root = r0 /\ h[t.stem].link}
          /\ disk_dirs = {d \in AllDirs : d.root = r0 /\ h[d.stem].dir.dir}
          /\ disk_index_json = {d \in AllDirs : d.root = r0 /\ h[d.stem].dir.index_json}
          /\ disk_repodata_record = [d \in AllDirs |->
                IF d.root = r0 THEN h[d.stem].dir.repodata_record ELSE None]
    /\ records = [r \in Roots |-> [p \in Pkgs |-> None]]
    /\ just_loaded = 0
    /\ scan_log = NothingLogged
    /\ link_precs = <<>>
    /\ InitExecutor
    /\ entry_to_link = None
    /\ InitRegistry
    /\ writable_memo = [r \in Roots |-> Bool(is_writable[r])]
    /\ write_permitted = is_writable
    /\ evaluated = [r \in Roots |-> Bool(is_writable[r])]
    /\ seen_false = {r \in Roots : ~is_writable[r]}
    /\ NothingListed
    /\ NoUrls
    /\ NoDists
    /\ NoProgress

SpecScan == InitScan /\ [][NextScan]_vars

\* The first load() of a process on root r; what the disk held before it is
\* kept beside the log.
FirstLoad(r) ==
    /\ scan_log = NothingLogged
    /\ pkgs_dir_isdir[r]
    /\ load_ran(r)
    /\ scan_log' = [last |-> [op |-> "load", root |-> r, e |-> None],
                    prior |-> NoOperation, index |-> NoIndex, before |-> Disk]

\* The first scan has run, on root r, and nothing since.
Scanned(r) == scan_log.last.op = "load" /\ scan_log.last.root = r

\* insert(package_cache_record) on the index the first scan of root r built.
InsertAfterScan(r, pcrec) ==
    /\ Scanned(r)
    /\ insert_ran(r, pcrec)
    /\ scan_log' = [last |-> [op |-> "insert", root |-> r, e |-> pcrec],
                    prior |-> scan_log.last, index |-> records[r], before |-> Disk]

\* insert(package_cache_record) whose write_as_json_to_file raises before it
\* wrote anything: the exception leaves insert.
InsertRaises(r, pcrec) ==
    /\ Scanned(r)
    /\ pcrec.extracted_package_dir.root = r
    /\ records' = insert_raised(records, r, pcrec)
    /\ scan_log' = [last |-> [op |-> "insert raised", root |-> r, e |-> pcrec],
                    prior |-> scan_log.last, index |-> records[r], before |-> Disk]
    /\ UNCHANGED <<exceptScan, is_writable, diskVars, link_precs, paired_actions, prepared,
                   pc, idx, pos, exc, exceptions, result, calls, hold, disk_before,
                   disk_links, just_loaded>>

NextFirstScan ==
    \/ \E r \in Roots : FirstLoad(r)
    \/ \E r \in Roots : \E pcrec \in InsertedRecords(r) : InsertAfterScan(r, pcrec)
    \/ \E r \in Roots : \E pcrec \in InsertedRecords(r) : InsertRaises(r, pcrec)

\* One scan of a root, from every state InitScan gives its disk, and one
\* insert into the index it built.
SpecFirstScan == InitScan /\ [][NextFirstScan]_vars

\* C37: an insert whose write of repodata_record.json fails leaves the index
\* of the root as it was; an insert that succeeds makes the entry the index
\* entry of its ref, in place of any entry with an equal ref, and changes no
\* other entry.
C37_InsertAllOrNothing ==
    \A r \in Roots :
        LET e == scan_log.last.e
        IN  /\ (scan_log.last.op = "insert raised" /\ scan_log.last.root = r) =>
                  records[r] = scan_log.index
            /\ (scan_log.last.op = "insert" /\ scan_log.last.root = r) =>
                  /\ records[r][e.pkey] = e
                  /\ \A q \in Pkgs \ {e.pkey} : records[r][q] = scan_log.index[q]
                  /\ disk_repodata_record[e.extracted_package_dir] = written_repodata_record(e)

\* An insert failed on an index that held another entry for the same ref and
\* an entry for the other package.
C37_Witness ==
    /\ scan_log.last.op = "insert raised"
    /\ scan_log.index[scan_log.last.e.pkey] # None
    /\ scan_log.index[scan_log.last.e.pkey] # scan_log.last.e
    /\ \E q \in Pkgs \ {scan_log.last.e.pkey} : scan_log.index[q] # None

\* Before the scan, the tarball of package p in root r was a file that cannot
\* be read as an archive, and its directory had neither
\* info/repodata_record.json nor info/index.json.
CorruptBefore(r, p) ==
    LET B == scan_log.before
        t == join(pkgs_dir_path(r), p, TRUE)
        d == join(pkgs_dir_path(r), p, FALSE)
    IN  /\ t \in B.files
        /\ t \in B.corrupt
        /\ B.repodata_record[d] = None
        /\ d \notin B.index_json

\* Before the scan, the tarball of package p in root r was a file that can be
\* read as an archive.
ValidBefore(r, p) ==
    LET B == scan_log.before
        t == join(pkgs_dir_path(r), p, TRUE)
    IN  t \in B.files /\ t \notin B.corrupt

\* C32: a tarball the scanner has to read and that is a corrupt archive is
\* deleted and has no entry, and the other package's valid tarball still gets
\* its entry.
C32_CorruptArchiveDeleted ==
    \A r \in Roots, p \in Pkgs :
        (Scanned(r) /\ CorruptBefore(r, p)) =>
            /\ join(pkgs_dir_path(r), p, TRUE) \notin disk_files
            /\ records[r][p] = None
            /\ \A q \in Pkgs \ {p} : ValidBefore(r, q) => records[r][q] # None

\* A scan met a corrupt tarball beside a partial directory and a valid tarball
\* of the other package.
C32_Witness ==
    \E r \in Roots, p \in Pkgs :
        /\ Scanned(r)
        /\ CorruptBefore(r, p)
        /\ join(pkgs_dir_path(r), p, FALSE) \in scan_log.before.dirs
        /\ \E q \in Pkgs \ {p} : ValidBefore(r, q) /\ records[r][q] # None

ExtractedOnlyBefore(r, p) ==
    /\ join(pkgs_dir_path(r), p, FALSE) \in scan_log.before.index_json
    /\ join(pkgs_dir_path(r), p, TRUE) \notin scan_log.before.files

\* Before the scan, package p had in root r a directory with neither metadata
\* file and no file at its tarball path.
BareDirBefore(r, p) ==
    LET B == scan_log.before
        d == join(pkgs_dir_path(r), p, FALSE)
    IN  /\ d \in B.dirs
        /\ d \notin B.index_json
        /\ B.repodata_record[d] = None
        /\ join(pkgs_dir_path(r), p, TRUE) \notin B.files

\* C34: a scan gives every directory that holds info/index.json and has no
\* tarball beside it an entry that is extracted and not fetched, and gives a
\* directory with neither metadata files nor a tarball no entry and leaves it
\* on disk.
C34_ExtractedOnlyEntries ==
    \A r \in Roots, p \in Pkgs :
        LET d == join(pkgs_dir_path(r), p, FALSE)
        IN  /\ (Scanned(r) /\ ExtractedOnlyBefore(r, p)) =>
                  /\ records[r][p] # None
                  /\ ~is_fetched(records[r][p])
                  /\ is_extracted(records[r][p])
            /\ (Scanned(r) /\ BareDirBefore(r, p)) =>
                  /\ records[r][p] = None
                  /\ d \in disk_dirs

\* C39: after a scan, every directory that holds info/index.json has an entry
\* in the index, also when a symbolic link lies at its tarball path, and a
\* symbolic link without such a directory has none.
C39_SymlinksHideNothing ==
    \A r \in Roots, p \in Pkgs :
        LET B == scan_log.before
            t == join(pkgs_dir_path(r), p, TRUE)
            d == join(pkgs_dir_path(r), p, FALSE)
        IN  Scanned(r) =>
                /\ d \in B.index_json => records[r][p] # None
                /\ (t \in B.links /\ d \notin B.dirs) => records[r][p] = None

\* C36 as stated: a scan of a root that is not writable leaves the disk as it
\* was: no directory extracted or removed, no repodata_record.json written, no
\* tarball deleted.
C36_ReadOnlyScanChangesNothing ==
    \A r \in Roots :
        (Scanned(r) /\ ~is_writable[r]) => Disk = scan_log.before

\* C36, amended: a scan of a root that is not writable extracts and removes no
\* directory and writes no repodata_record.json; the only change it makes is
\* to delete tarballs that cannot be read as an archive.
C36_ReadOnlyScanOnlyDeletesCorrupt ==
    \A r \in Roots :
        (Scanned(r) /\ ~is_writable[r]) =>
            LET B == scan_log.before
            IN  /\ disk_dirs = B.dirs
                /\ disk_index_json = B.index_json
                /\ disk_repodata_record = B.repodata_record
                /\ disk_links = B.links
                /\ disk_files \subseteq B.files
                /\ B.files \ disk_files \subseteq B.corrupt
                /\ \A t \in disk_files : tarball_md5[t] = B.md5[t]

\* A scan of a root that is not writable read one package from its tarball,
\* with no directory beside it, and found a directory with info/index.json and
\* no repodata_record.json for the other.
C36_Witness ==
    \E r \in Roots, p, q \in Pkgs :
        /\ Scanned(r)
        /\ ~is_writable[r]
        /\ ValidBefore(r, p)
        /\ join(pkgs_dir_path(r), p, FALSE) \notin scan_log.before.dirs
        /\ records[r][p] # None
        /\ join(pkgs_dir_path(r), q, FALSE) \in scan_log.before.index_json
        /\ scan_log.before.repodata_record[join(pkgs_dir_path(r), q, FALSE)] = None
        /\ records[r][q] # None

\* C19: after a scan, every entry of the index whose tarball path is set has a
\* file there, and every entry whose extracted directory is set has a readable
\* info/index.json in it.
C19_EntryPathsExist ==
    \A r \in Roots, p \in Pkgs :
        (just_loaded = r /\ records[r][p] # None) =>
            /\ records[r][p].package_tarball_full_path # None =>
                  records[r][p].package_tarball_full_path \in disk_files
            /\ records[r][p].extracted_package_dir # None =>
                  records[r][p].extracted_package_dir \in disk_index_json

\* C20: after a scan, every entry of the index whose tarball is a file on disk
\* carries the content hash of that file as its md5.
C20_Md5IsTarballHash ==
    \A r \in Roots, p \in Pkgs :
        (/\ just_loaded = r
         /\ records[r][p] # None
         /\ records[r][p].package_tarball_full_path \in disk_files) =>
            records[r][p].md5 = tarball_md5[records[r][p].package_tarball_full_path]

----------------------------------------------------------------------------
\* Signals and reversal.

\* A signal was delivered while a call of the i-th ref ran.
Signalled(i) ==
    \/ exc.kind = "signal" /\ exc.ref = i
    \/ \E k \in 1..Len(exceptions) : exceptions[k].kind = "signal" /\ exceptions[k].ref = i

ReverseSteps == {"cache_reverse", "extract_reverse"}

\* C11: when SIGINT or SIGTERM arrives during a call of a ref inside execute(),
\* the actions of that ref are reversed, the interrupt leaves execute(), no
\* later ref of the batch is processed, and the refs that completed before are
\* not reversed.
C11_SignalStopsBatch ==
    \A i \in 1..Len(paired_actions) :
        Signalled(i) =>
            /\ pc = "done" =>
                  /\ StepsAfterRaise(i) = ExpectedReversal(i)
                  /\ result = "CondaSignalInterrupt"
            /\ \A k \in 1..Len(calls) : calls[k].ref <= i
            /\ \A j \in 1..(i - 1) :
                  ~RefRaised(j) =>
                      \A k \in 1..Len(calls) :
                          calls[k].ref = j => calls[k].step \notin ReverseSteps

----------------------------------------------------------------------------
\* Properties of get_entry_to_link.

\* Root r holds an extracted entry equal to the ref.
HoldsExtractedMatch(r, pref) ==
    \E k \in 1..Len(values(r)) : ref_eq(values(r)[k], pref) /\ is_extracted(values(r)[k])

\* Root r holds an entry whose dist string without channel is the ref's.
HoldsChannelless(r, pref) ==
    \E k \in 1..Len(values(r)) :
        dist_str(values(r)[k].pkey).dist_name = dist_str(pref.pkey).dist_name

\* The first root, writable roots before read-only ones, that satisfies Test.
FirstInLinkOrder(Test(_)) ==
    IF \E r \in Roots : is_writable[r] /\ Test(r)
    THEN FirstRoot(LAMBDA r : is_writable[r] /\ Test(r))
    ELSE FirstRoot(LAMBDA r : ~is_writable[r] /\ Test(r))

\* C13: every entry get_entry_to_link returns is extracted, and when roots hold
\* an extracted entry equal to the ref the one returned lies in the first such
\* root, writable roots in declared order before read-only roots.
C13_EntryToLinkIsExtracted ==
    (entry_to_link # None /\ entry_to_link.outcome.kind = "pcrec") =>
        LET pref == entry_to_link.package_ref
            e == entry_to_link.outcome
        IN  /\ is_extracted(e)
            /\ (\E r \in Roots : HoldsExtractedMatch(r, pref)) =>
                  /\ ref_eq(e, pref)
                  /\ e.extracted_package_dir.root =
                        FirstInLinkOrder(LAMBDA r : HoldsExtractedMatch(r, pref))

\* C14: with a writable root configured and no extracted entry equal to the
\* ref, get_entry_to_link returns an entry with the ref's channel-less dist
\* string whenever some root holds one, taken from the first such root, writable
\* roots first, and raises the not-found error only when no root holds one.
C14_FallbackSearchesEveryRoot ==
    (/\ entry_to_link # None
     /\ SomeWritable
     /\ \A r \in Roots : ~HoldsExtractedMatch(r, entry_to_link.package_ref)) =>
        LET pref == entry_to_link.package_ref
            e == entry_to_link.outcome
        IN  IF \E r \in Roots : HoldsChannelless(r, pref)
            THEN /\ e.kind = "pcrec"
                 /\ dist_str(e.pkey).dist_name = dist_str(pref.pkey).dist_name
                 /\ e.extracted_package_dir.root =
                       FirstInLinkOrder(LAMBDA r : HoldsChannelless(r, pref))
            ELSE e = not_found

----------------------------------------------------------------------------
\* Properties of writable_caches and read_only_caches.

\* The roots of a sequence, each once and in declared order.
InDeclaredOrder(seq) == \A i, j \in 1..Len(seq) : i < j => seq[i] < seq[j]

Elements(seq) == {seq[i] : i \in 1..Len(seq)}

\* C15: writable_caches() returns exactly the roots whose is_writable is true
\* and read_only_caches() exactly the other roots, both in declared order, so
\* that they partition pkgs_dirs; writable_caches() raises exactly when no root
\* is writable.
C15_CachesPartition ==
    /\ Elements(read_only_caches) = {r \in Roots : ~is_writable[r]}
    /\ InDeclaredOrder(read_only_caches)
    /\ (writable_caches.kind = "raise") <=> (\A r \in Roots : ~is_writable[r])
    /\ writable_caches.kind = "ok" =>
          /\ Elements(writable_caches.caches) = {r \in Roots : is_writable[r]}
          /\ InDeclaredOrder(writable_caches.caches)
          /\ Elements(writable_caches.caches) \cap Elements(read_only_caches) = {}
          /\ Len(writable_caches.caches) + Len(read_only_caches) = Len(pkgs_dirs)

\* C15 witness: get_entry_to_link went through both lists of a configuration
\* with a writable and a read-only root.
C15_Witness ==
    /\ entry_to_link # None
    /\ \E r, q \in Roots : is_writable[r] /\ ~is_writable[q]
    /\ Len(all_caches) = NRoots

\* The entries of all roots that are equal to the ref.
MatchingEntries(pref) ==
    {e \in UNION {Elements(values(r)) : r \in Roots} : ref_eq(e, pref)}

\* C38 as stated: with every configured root read-only, query_all yields the
\* matching entries of the roots and get_entry_to_link returns an extracted
\* matching entry when a root holds one.
C38_NoWritableRootNeeded ==
    (entry_to_link # None /\ \A r \in Roots : ~is_writable[r]) =>
        LET pref == entry_to_link.package_ref
        IN  /\ entry_to_link.query_all.kind = "ok"
            /\ Elements(entry_to_link.query_all.records) = MatchingEntries(pref)
            /\ (\E r \in Roots : HoldsExtractedMatch(r, pref)) =>
                  /\ entry_to_link.outcome.kind = "pcrec"
                  /\ is_extracted(entry_to_link.outcome)
                  /\ ref_eq(entry_to_link.outcome, pref)

\* C38, amended: with at least one writable root, query_all yields the matching
\* entries of every root, read-only roots included, and get_entry_to_link
\* returns an extracted matching entry when a root, read-only or not, holds
\* one; with every root read-only both raise the CondaError of
\* writable_caches().
C38_ReadOnlyRootsAreQueried ==
    entry_to_link # None =>
        LET pref == entry_to_link.package_ref
        IN  IF SomeWritable
            THEN /\ entry_to_link.query_all.kind = "ok"
                 /\ Elements(entry_to_link.query_all.records) = MatchingEntries(pref)
                 /\ Len(entry_to_link.query_all.records) = Cardinality(MatchingEntries(pref))
                 /\ (\E r \in Roots : HoldsExtractedMatch(r, pref)) =>
                       /\ entry_to_link.outcome.kind = "pcrec"
                       /\ is_extracted(entry_to_link.outcome)
                       /\ ref_eq(entry_to_link.outcome, pref)
            ELSE /\ entry_to_link.query_all = [kind |-> "raise", exc |-> "CondaError"]
                 /\ entry_to_link.outcome = [kind |-> "raise", exc |-> "CondaError"]

\* get_entry_to_link returned the extracted entry of a read-only root while
\* the writable root held none.
C38_Witness ==
    /\ entry_to_link # None
    /\ SomeWritable
    /\ entry_to_link.outcome.kind = "pcrec"
    /\ ref_eq(entry_to_link.outcome, entry_to_link.package_ref)
    /\ ~is_writable[entry_to_link.outcome.extracted_package_dir.root]
    /\ \A r \in Roots : is_writable[r] => ~HoldsExtractedMatch(r, entry_to_link.package_ref)

\* C21: a load() that follows a load() on the same root builds the same index,
\* and a load() that follows insert(e) builds an index that holds an entry for
\* e's ref and the entries the index held for the other refs.
C21_ScanIdempotent ==
    \A r \in Roots :
        scan_log.last = [op |-> "load", root |-> r, e |-> None] =>
            /\ scan_log.prior = [op |-> "load", root |-> r, e |-> None] =>
                  records[r] = scan_log.index
            /\ (scan_log.prior.op = "insert" /\ scan_log.prior.root = r) =>
                  /\ records[r][scan_log.prior.e.pkey] # None
                  /\ \A q \in Pkgs \ {scan_log.prior.e.pkey} : records[r][q] = scan_log.index[q]

----------------------------------------------------------------------------
\* UrlsData: urls.txt of a root and of its channel/subdir directories.

MaxUrlCalls == 2

MaxLines == 1

\* The pipeline at rest over empty roots.
PipelineIdle ==
    /\ is_writable = [r \in Roots |-> TRUE]
    /\ InitCaches([r \in Roots |-> [p \in Pkgs |-> NoHolding]])
    /\ link_precs = <<>>
    /\ InitExecutor

\* A package URL: what Channel(url) makes of it (safe_name and subdir, '' when
\* the URL names no subdir) and its basename.
Url(channel, subdir, base) == [kind |-> "url", channel |-> channel, subdir |-> subdir, base |-> base]

\* The empty string.
EmptyUrl == Url("", "", [stem |-> "", tar |-> FALSE])

\* Non-empty URLs: x from an unknown channel, x from channel a/linux-64, y from
\* an unknown channel.
PackageUrls ==
    {Url("", "", fn("x")), Url("a", "linux-64", fn("x")), Url("", "", fn("y"))}

\* "%s/%s" % (channel_safe_name, subdir)
BucketKey(channel, subdir) == [kind |-> "key", channel |-> channel, subdir |-> subdir]

SubdirKeys == {BucketKey("a", "linux-64")}

\* basename(url) of a URL, and of a key of the dict: the part after the last '/'.
basename_of_url(url) == url.base

basename_of_key(key) == [stem |-> key.subdir, tar |-> FALSE]

\* A line of a urls.txt as written by fh.write(url + '\n'), and line.strip().
Line(url) == [text |-> url, newline |-> TRUE]

strip(line) == line.text

File(lines) == [kind |-> "file", lines |-> lines]

\* The lines of a file, none when there is no file.
lines_of(file) == IF file = None THEN <<>> ELSE file.lines

\* list.reverse()
reverse(list) == [i \in 1..Len(list) |-> list[Len(list) + 1 - i]]

\* [line.strip() for line in fh], reversed
read_reversed(file) == reverse([i \in 1..Len(file.lines) |-> strip(file.lines[i])])

\* open(path, 'w') in place of open(path, 'a').
append_line_truncating(file, url) == File(<<Line(url)>>)

\* open(path, 'a'); fh.write(url + '\n')
append_line(file, url) == File(lines_of(file) \o <<Line(url)>>)

\* The dict: key in d, d.get(key, []), d[key] = list, d[key].insert(0, url).
has_key(d, key) == \E i \in 1..Len(d) : d[i].key = key

bucket(d, key) ==
    IF has_key(d, key) THEN d[CHOOSE i \in 1..Len(d) : d[i].key = key].urls ELSE <<>>

set_bucket(d, key, list) ==
    IF has_key(d, key)
    THEN [i \in 1..Len(d) |-> IF d[i].key = key THEN [key |-> key, urls |-> list] ELSE d[i]]
    ELSE Append(d, [key |-> key, urls |-> list])

insert_first(d, key, url) == set_bucket(d, key, <<url>> \o bucket(d, key))

RECURSIVE load_subdirs(_, _, _, _)
load_subdirs(d, keys, files, metadata) ==
    IF keys = {} THEN d
    ELSE LET key == CHOOSE k \in keys : TRUE
             loaded == IF key.channel \in metadata /\ files[key] # None
                       THEN set_bucket(d, key, read_reversed(files[key]))
                       ELSE d
         IN  load_subdirs(loaded, keys \ {key}, files, metadata)

\* UrlsData._load
load_urls(root_file, files, metadata) ==
    IF root_file # None
    THEN load_subdirs(<<[key |-> None, urls |-> read_reversed(root_file)]>>,
                      DOMAIN files, files, metadata)
    ELSE <<>>

\* lambda url: url and basename(url) == filename
accepts_key(key, filename) == key # None /\ basename_of_key(key) = filename

\* auxlib's first(seq, key): the first element of the iteration that the lambda
\* accepts, else None.  Iterating a dict yields its keys.
first_key(d, filename) ==
    IF \E i \in 1..Len(d) : accepts_key(d[i].key, filename)
    THEN d[CHOOSE i \in 1..Len(d) : accepts_key(d[i].key, filename) /\ \A j \in 1..(i - 1) : ~accepts_key(d[j].key, filename)].key
    ELSE None

\* UrlsData.get_url(package_fn_or_path)
get_url(d, package_fn_or_path) ==
    LET filename == [package_fn_or_path EXCEPT !.tar = TRUE]
    IN  first_key(d, filename)

\* UrlsData(pkgs_dir): a process starts and reads the files (while they are
\* short, which bounds the model).
UrlsDataInit ==
    /\ Len(lines_of(urls_txt)) <= MaxLines
    /\ \A k \in SubdirKeys : Len(lines_of(subdir_urls_txt[k])) <= MaxLines
    /\ urls_data' = load_urls(urls_txt, subdir_urls_txt, metadata_json)
    /\ init_lines' = lines_of(urls_txt)
    /\ url_log' = <<>>
    /\ url_got' = None
    /\ UNCHANGED <<exceptUrls, urls_txt, subdir_urls_txt, metadata_json>>

\* add_url(url).  Each open(..., 'a') succeeds or raises; mkdir_p is part of the
\* first.
AddUrl(url) ==
    /\ Len(url_log) < MaxUrlCalls
    /\ url_got' = None
    /\ UNCHANGED <<exceptUrls, metadata_json, init_lines>>
    /\ IF url = EmptyUrl
       THEN /\ url_log' = Append(url_log, [url |-> url, raised |-> FALSE])
            /\ UNCHANGED <<urls_data, urls_txt, subdir_urls_txt>>
       ELSE LET key == BucketKey(url.channel, url.subdir)
                d1 == IF url.subdir # "" THEN insert_first(urls_data, key, url) ELSE urls_data
                d2 == insert_first(d1, None, url)
            IN  \/ /\ url.subdir # ""
                   /\ urls_data' = d1
                   /\ UNCHANGED <<urls_txt, subdir_urls_txt>>
                   /\ url_log' = Append(url_log, [url |-> url, raised |-> TRUE])
                \/ /\ subdir_urls_txt' =
                         IF url.subdir # ""
                         THEN [subdir_urls_txt EXCEPT ![key] = append_line(@, url)]
                         ELSE subdir_urls_txt
                   /\ urls_data' = d2
                   /\ \/ /\ urls_txt' = append_line(urls_txt, url)
                         /\ url_log' = Append(url_log, [url |-> url, raised |-> FALSE])
                      \/ /\ UNCHANGED urls_txt
                         /\ url_log' = Append(url_log, [url |-> url, raised |-> TRUE])

UrlNames == {fn(p) : p \in Pkgs} \cup {strip_tarball_extension(fn(p)) : p \in Pkgs}

GetUrl(name) ==
    /\ url_got' = [name |-> name, value |-> get_url(urls_data, name)]
    /\ UNCHANGED <<exceptUrls, urls_data, urls_txt, subdir_urls_txt, metadata_json,
                   init_lines, url_log>>

NextUrls ==
    \/ UrlsDataInit
    \/ \E url \in PackageUrls \cup {EmptyUrl} : AddUrl(url)
    \/ \E name \in UrlNames : GetUrl(name)

\* The urls.txt files a root can hold: lines written by add_url, those of a
\* subdir file being URLs of that channel and subdir.
LinesOver(urls) == UNION {[1..n -> {Line(u) : u \in urls}] : n \in 0..MaxLines}

\* A process has just constructed UrlsData over a root with any such files.
InitUrls ==
    /\ urls_txt \in {None} \cup {File(l) : l \in LinesOver(PackageUrls)}
    /\ subdir_urls_txt \in
          [SubdirKeys -> {None} \cup {File(l) : l \in
              LinesOver({u \in PackageUrls : u.subdir # ""})}]
    /\ \A k \in SubdirKeys :
          subdir_urls_txt[k] # None =>
              \A i \in 1..Len(subdir_urls_txt[k].lines) :
                  BucketKey(strip(subdir_urls_txt[k].lines[i]).channel,
                            strip(subdir_urls_txt[k].lines[i]).subdir) = k
    /\ metadata_json \in SUBSET {k.channel : k \in SubdirKeys}
    /\ urls_data = load_urls(urls_txt, subdir_urls_txt, metadata_json)
    /\ init_lines = lines_of(urls_txt)
    /\ url_log = <<>>
    /\ url_got = None
    /\ NoDists
    /\ NoProgress
    /\ PipelineIdle
    /\ entry_to_link = None
    /\ InitRegistry
    /\ WritableSettled
    /\ NothingListed
    /\ NothingScanned

SpecUrls == InitUrls /\ [][NextUrls]_vars

\* The add_url call made last.
LastAdded == url_log[Len(url_log)]

\* A get_url follows a completed add_url(u), u not empty, and asks for u's
\* basename with or without the tarball extension.
AskedForLastAdded ==
    /\ url_got # None
    /\ url_log # <<>>
    /\ LastAdded.url # EmptyUrl
    /\ ~LastAdded.raised
    /\ [url_got.name EXCEPT !.tar = TRUE] = basename_of_url(LastAdded.url)

\* C22: after add_url(u) with u not empty, get_url(basename(u)) and get_url of
\* the basename without the tarball extension return u.
C22_UrlRoundTrip == AskedForLastAdded => url_got.value = LastAdded.url

\* The URLs of all buckets in search order: the global bucket, then the other
\* buckets in insertion order, each most recent first.
RECURSIVE stored_after(_, _)
stored_after(d, i) ==
    IF i > Len(d) THEN <<>>
    ELSE (IF d[i].key = None THEN <<>> ELSE d[i].urls) \o stored_after(d, i + 1)

stored_urls(d) == bucket(d, None) \o stored_after(d, 1)

first_stored(d, name) ==
    LET all == stored_urls(d)
        hits == {i \in 1..Len(all) : basename_of_url(all[i]) = [name EXCEPT !.tar = TRUE]}
    IN  IF hits = {} THEN None ELSE all[CHOOSE i \in hits : \A j \in hits : i <= j]

\* C23: get_url(name) returns the first stored URL, in search order, whose
\* basename is name (with the tarball extension), and None only when no stored
\* URL has that basename.
C23_GetUrlFindsStored == url_got # None => url_got.value = first_stored(urls_data, url_got.name)

\* C24 as stated: the lines of <root>/urls.txt are the lines it had at init
\* followed by one line per add_url invocation since, in order.
C24_OneLinePerInvocation ==
    lines_of(urls_txt) = init_lines \o [i \in 1..Len(url_log) |-> Line(url_log[i].url)]

\* The add_url invocations with a non-empty URL that returned without raising.
completed_adds == SelectSeq(url_log, LAMBDA c : c.url # EmptyUrl /\ ~c.raised)

\* C24: <root>/urls.txt is append-only: its lines are the lines it had at init
\* followed by one line for each add_url invocation since that had a non-empty
\* URL and returned without raising, in order; other invocations add no line.
C24_UrlsTxtAppendOnly ==
    lines_of(urls_txt) = init_lines \o [i \in 1..Len(completed_adds) |-> Line(completed_adds[i].url)]

C24_Witness ==
    /\ init_lines # <<>>
    /\ Len(url_log) = MaxUrlCalls
    /\ Len(completed_adds) >= 1
    /\ Len(completed_adds) < Len(url_log)

\* C25: right after add_url(u) with u not empty, raised or not, u is the head
\* of the global bucket, and of the bucket of its channel and subdir when it
\* has them.
C25_AddUrlUpdatesBuckets ==
    (url_log # <<>> /\ url_got = None /\ LastAdded.url # EmptyUrl) =>
        /\ bucket(urls_data, None) # <<>>
        /\ Head(bucket(urls_data, None)) = LastAdded.url
        /\ LastAdded.url.subdir # "" =>
              /\ bucket(urls_data, BucketKey(LastAdded.url.channel, LastAdded.url.subdir)) # <<>>
              /\ Head(bucket(urls_data, BucketKey(LastAdded.url.channel, LastAdded.url.subdir)))
                    = LastAdded.url

\* C30: right after UrlsData init, the bucket of every channel/subdir urls.txt
\* on disk holds that file's lines in reverse order, and the global bucket
\* holds those of <root>/urls.txt when that file exists.
C30_LoadReadsEveryUrlsTxt ==
    url_log = <<>> =>
        /\ \A k \in SubdirKeys :
              subdir_urls_txt[k] # None => bucket(urls_data, k) = read_reversed(subdir_urls_txt[k])
        /\ urls_txt # None => bucket(urls_data, None) = read_reversed(urls_txt)

\* C27: a no-op plan for a ref with md5 m rests on an extracted record whose
\* md5 is m.
C27_NoOpOnlyOnMd5Match ==
    JustPlanned =>
        \A i \in PlannedRefs :
            Outcome(i) = plan(None, None) =>
                /\ extracted_pcrec(link_precs[i]) # None
                /\ extracted_pcrec(link_precs[i]).md5 = link_precs[i].md5

\* C28: the extraction planned by rule R1 is in place: its destination is the
\* path of the source tarball without the tarball extension.
C28_R1ExtractsInPlace ==
    JustPlanned =>
        \A i \in PlannedRefs :
            (RuleR1(link_precs[i]) /\ Outcome(i).kind = "plan") =>
                Outcome(i).extract_axn.target_full_path
                    = strip_tarball_extension(Outcome(i).extract_axn.source_full_path)

----------------------------------------------------------------------------
\* Dist: equality by hash of pkey, ordering by __key__.  Strings are sequences
\* of code points.

\* UNKNOWN_CHANNEL: '<unknown>'
UNKNOWN_CHANNEL == <<60, 117, 110, 107, 110, 111, 119, 110, 62>>

\* Dist(channel, name, version, build_string, build_number, with_features_depends)
Dist(channel, name, version, build_string, build_number) ==
    [kind |-> "Dist", channel |-> channel, name |-> name, version |-> version,
     build_string |-> build_string, build_number |-> build_number,
     with_features_depends |-> None]

\* name.endswith('@')
is_feature_package(d) == d.name # <<>> /\ d.name[Len(d.name)] = 64

\* "%s-%s-%s" % (self.name, self.version, self.build)
dist_name(d) ==
    IF is_feature_package(d) THEN d.name
    ELSE d.name \o <<45>> \o d.version \o <<45>> \o d.build_string

\* Dist.pkey
dist_pkey(d) ==
    IF is_feature_package(d) THEN d.name
    ELSE IF d.channel # <<>> /\ d.channel # UNKNOWN_CHANNEL
    THEN d.channel \o <<58, 58>> \o dist_name(d)
    ELSE dist_name(d)

\* hash(str): equal strings have equal hashes; different strings are taken to
\* have different hashes.
hash_of(string) == string

\* Dist.__eq__: hash(self) == hash(other), with __hash__ = hash(self.pkey)
dist_eq(a, b) == hash_of(dist_pkey(a)) = hash_of(dist_pkey(b))

\* Dist.__key__
dist_key(d) == <<d.channel, dist_name(d), d.with_features_depends>>

\* k1 < k2 on these tuples; with_features_depends is None in both.
key_lt(k1, k2) ==
    \/ str_lt(k1[1], k2[1])
    \/ k1[1] = k2[1] /\ str_lt(k1[2], k2[2])

dist_lt(a, b) == key_lt(dist_key(a), dist_key(b))

dist_gt(a, b) == key_lt(dist_key(b), dist_key(a))

dist_le(a, b) == key_lt(dist_key(a), dist_key(b)) \/ dist_key(a) = dist_key(b)

dist_ge(a, b) == key_lt(dist_key(b), dist_key(a)) \/ dist_key(a) = dist_key(b)

dist_ne(a, b) == ~dist_eq(a, b)

\* Dists over channels 'c' and '<unknown>', names 'a' and 'a-b', versions '1'
\* and 'b-1', build string '0' and build numbers 0 and 1.
Dists ==
    {Dist(c, n, v, <<48>>, k) :
        c \in {<<99>>, UNKNOWN_CHANNEL}, n \in {<<97>>, <<97, 45, 98>>},
        v \in {<<49>>, <<98, 45, 49>>}, k \in {0, 1}}

\* a == b, a < b, ... are evaluated.
Compare ==
    /\ compared = None
    /\ compared' = [eq |-> dist_eq(dist_a, dist_b), lt |-> dist_lt(dist_a, dist_b),
                    gt |-> dist_gt(dist_a, dist_b), le |-> dist_le(dist_a, dist_b),
                    ge |-> dist_ge(dist_a, dist_b), ne |-> dist_ne(dist_a, dist_b)]
    /\ UNCHANGED <<pipelineVars, entry_to_link, registryVars, writableVars, dedupeVars,
                   scanVars, urlsVars, progressVars, dist_a, dist_b>>

InitDist ==
    /\ dist_a \in Dists
    /\ dist_b \in Dists
    /\ compared = None
    /\ PipelineIdle
    /\ entry_to_link = None
    /\ InitRegistry
    /\ WritableSettled
    /\ NothingListed
    /\ NothingScanned
    /\ NoUrls
    /\ NoProgress

SpecDist == InitDist /\ [][Compare]_vars

\* The identity tuple of a Dist.
identity(d) == <<d.channel, d.name, d.version, d.build_string, d.build_number>>

\* Lexicographic order over identity tuples: strings as Python orders them,
\* then the build number.
identity_lt(s, t) ==
    \/ str_lt(s[1], t[1])
    \/ s[1] = t[1] /\ str_lt(s[2], t[2])
    \/ s[1] = t[1] /\ s[2] = t[2] /\ str_lt(s[3], t[3])
    \/ s[1] = t[1] /\ s[2] = t[2] /\ s[3] = t[3] /\ str_lt(s[4], t[4])
    \/ s[1] = t[1] /\ s[2] = t[2] /\ s[3] = t[3] /\ s[4] = t[4] /\ s[5] < t[5]

\* C26: two Dists are equal iff their identity tuples are, < and > are the
\* lexicographic order over that tuple, and exactly one of a < b, a == b,
\* a > b holds.
C26_DistIdentityAndOrder ==
    compared # None =>
        /\ compared.eq <=> identity(dist_a) = identity(dist_b)
        /\ compared.lt <=> identity_lt(identity(dist_a), identity(dist_b))
        /\ compared.gt <=> identity_lt(identity(dist_b), identity(dist_a))
        /\ Cardinality({rel \in {"lt", "eq", "gt"} : compared[rel]}) = 1

----------------------------------------------------------------------------
\* _execute_actions: the progress bar of one package.  Fractions are in
\* hundredths, values passed to update_to in ten-thousandths.

MaxReports == 2

\* download_total = 0.75
download_total_reserved == 75

\* the 1 of (1 - download_total): the whole range
whole_range == 100

\* pct_completed as the actions' execute reports it
Fractions == {0, 50, 100}

\* The (cache_axn, extract_axn) pairs of paired_actions, by the URL scheme of
\* the fetch.
ProgressActions ==
    [cache_axn : {None} \cup {[kind |-> "CacheUrlAction", url |-> [scheme |-> sch]] : sch \in {"file", "https"}},
     extract_axn : {None, [kind |-> "ExtractPackageAction"]}]

\* url.startswith('file:/')
startswith_file(url) == url.scheme = "file"

exceptProgress == <<pipelineVars, entry_to_link, registryVars, writableVars, dedupeVars, scanVars, urlsVars, distVars>>

\* if cache_axn is None and extract_axn is None: return
ProgressNothingToDo ==
    /\ progress_pc = "start"
    /\ progress_axns.cache_axn = None
    /\ progress_axns.extract_axn = None
    /\ progress_pc' = "done"
    /\ UNCHANGED <<exceptProgress, progress_axns, download_total, reported>>

\* if cache_axn: ... the callback is chosen and download_total settled
ProgressBeginCache ==
    /\ progress_pc = "start"
    /\ ~(progress_axns.cache_axn = None /\ progress_axns.extract_axn = None)
    /\ IF progress_axns.cache_axn = None
       THEN progress_pc' = "extract" /\ UNCHANGED download_total
       ELSE /\ progress_pc' = "cache"
            /\ download_total' = IF startswith_file(progress_axns.cache_axn.url) THEN 0 ELSE download_total
    /\ UNCHANGED <<exceptProgress, progress_axns, reported>>

\* progress_update_cache_axn(pct_completed); None for a file: URL
ProgressUpdateCacheAxn(pct_completed) ==
    /\ progress_pc = "cache"
    /\ ~startswith_file(progress_axns.cache_axn.url)
    /\ Len(reported) < MaxReports
    /\ reported' = Append(reported, [axn |-> "cache", pct_completed |-> pct_completed, value |-> pct_completed * download_total])
    /\ UNCHANGED <<exceptProgress, progress_axns, progress_pc, download_total>>

\* cache_axn.execute returns
ProgressCacheDone ==
    /\ progress_pc = "cache"
    /\ progress_pc' = IF progress_axns.extract_axn = None THEN "done" ELSE "extract"
    /\ UNCHANGED <<exceptProgress, progress_axns, download_total, reported>>

\* progress_update_extract_axn(pct_completed)
ProgressUpdateExtractAxn(pct_completed) ==
    /\ progress_pc = "extract"
    /\ progress_axns.extract_axn # None
    /\ Len(reported) < MaxReports
    /\ reported' = Append(reported, [axn |-> "extract", pct_completed |-> pct_completed, value |-> (whole_range - download_total) * pct_completed + whole_range * download_total])
    /\ UNCHANGED <<exceptProgress, progress_axns, progress_pc, download_total>>

\* extract_axn.execute returns, or either execute raises
ProgressFinish ==
    /\ progress_pc \in {"cache", "extract"}
    /\ progress_pc' = "done"
    /\ UNCHANGED <<exceptProgress, progress_axns, download_total, reported>>

NextProgress ==
    \/ ProgressNothingToDo
    \/ ProgressBeginCache
    \/ \E pct_completed \in Fractions : ProgressUpdateCacheAxn(pct_completed)
    \/ ProgressCacheDone
    \/ \E pct_completed \in Fractions : ProgressUpdateExtractAxn(pct_completed)
    \/ ProgressFinish

InitProgress ==
    /\ progress_axns \in ProgressActions
    /\ progress_pc = "start"
    /\ download_total = download_total_reserved
    /\ reported = <<>>
    /\ PipelineIdle
    /\ entry_to_link = None
    /\ InitRegistry
    /\ WritableSettled
    /\ NothingListed
    /\ NothingScanned
    /\ NoUrls
    /\ NoDists

SpecProgress == InitProgress /\ [][NextProgress]_vars

\* The fetch of the package downloads from a URL that is not a file: URL.
FetchesRemotely == progress_axns.cache_axn # None /\ ~startswith_file(progress_axns.cache_axn.url)

\* C29: a fetch fraction p is reported as 0.75 * p; an extract fraction p is
\* reported as 0.75 + 0.25 * p after a fetch from a non-file URL and as p when
\* the fetch has a file: URL or there is no fetch.
C29_ProgressScaling ==
    progress_axns # None =>
        \A i \in 1..Len(reported) :
            LET rep == reported[i]
            IN  IF rep.axn = "cache" THEN rep.value = 75 * rep.pct_completed
                ELSE IF FetchesRemotely THEN rep.value = 7500 + 25 * rep.pct_completed
                ELSE rep.value = 100 * rep.pct_completed

----------------------------------------------------------------------------
\* The shape of the plans.

\* C35: every plan make_actions_for_record returns is (None, None),
\* (None, ExtractPackageAction) or (CacheUrlAction, ExtractPackageAction); in
\* the last, the extraction reads the tarball the fetch writes and both work in
\* the first writable root.
C35_PlanShapes ==
    JustPlanned =>
        \A i \in PlannedRefs :
            LET out == Outcome(i)
            IN  out.kind = "plan" =>
                    /\ out.cache_axn = None \/ out.cache_axn.kind = "CacheUrlAction"
                    /\ out.extract_axn = None \/ out.extract_axn.kind = "ExtractPackageAction"
                    /\ out.cache_axn # None => out.extract_axn # None
                    /\ (out.cache_axn # None /\ out.extract_axn # None) =>
                          /\ out.extract_axn.source_full_path = out.cache_axn.target_full_path
                          /\ out.cache_axn.target_pkgs_dir = pkgs_dir_path(FirstWritableRoot)
                          /\ out.extract_axn.target_pkgs_dir = pkgs_dir_path(FirstWritableRoot)

\* A tarball held by a read-only first root is planned to be fetched into and
\* extracted in the second root, the first writable one.
C35_Witness ==
    /\ JustPlanned
    /\ ~is_writable[1]
    /\ \E i \in PlannedRefs :
          /\ Outcome(i).kind = "plan"
          /\ Outcome(i).cache_axn # None
          /\ Outcome(i).extract_axn # None
          /\ RuleR2(link_precs[i])
          /\ Outcome(i).cache_axn.target_pkgs_dir = pkgs_dir_path(2)

====
